---- MODULE Spec2Model ----
(***************************************************************************)
(* CV data pipeline of bmill3r/data_cv:                                    *)
(*   json_to_csv_converter.py  document -> tables (select, export)         *)
(*   csv_to_json_converter.py  tables -> document (import)                 *)
(*   ai_cv_generator.py        per-entry relevance tailoring               *)
(*                                                                         *)
(* A Python str is a sequence of one-character strings, so that isdigit,   *)
(* int, upper, startswith, replace, sorted and f-string concatenation are  *)
(* computed character by character as Python computes them.  A Python list *)
(* is a sequence; None and [] (both falsy) are the empty sequence.         *)
(***************************************************************************)
EXTENDS Integers, Sequences, FiniteSets, TLC

VARIABLES
    pc,                \* position of the running script
    entries,           \* data['entries'] of the document given to json_to_csv
    args,              \* doc_type, company_filters, tag_filters, filter_logic
    filtered_entries,  \* write_entries_csv: the selected, sorted entries
    first_selection,   \* filtered_entries of the previous export, when re-exporting
    entries_csv,       \* entries.csv: the rows written, explanation row first
    json_entries,      \* convert_csv_to_json: json_data['entries']
    contact_csv,       \* contact_info.csv: its rows, the header row first
    contact_info,      \* parse_contact_info_csv: result
    contact_log,       \* parse_contact_info_csv: the key printed for each row added
    contact_info_in,   \* data['contact_info'] of the document given to json_to_csv
    cv_entries,        \* cv_data['entries'] of the document given to the tailoring
    tailor_args,       \* max_entries_per_section, improve_descriptions, service
    idx,               \* create_tailored_json: loop index of the scoring loop
    responses,         \* what the scoring service did for each entry so far
    scored_entries,    \* create_tailored_json: scored_entries
    tailored_entries,  \* create_tailored_json: tailored_data['entries'] as written
    exported_csv,      \* entries.csv written from the imported document
    text_blocks,       \* data['text_blocks'] of the document given to json_to_csv
    text_blocks_csv,   \* text_blocks.csv: the rows written, the header row first
    skills,            \* data['skills'] of the document given to json_to_csv
    aside_sections_csv,\* aside_sections.csv: the rows written, the header row first
    aside_entries_csv, \* aside_entries.csv: the rows written, the header row first
    json_text_blocks,  \* convert_csv_to_json: json_data['text_blocks']
    json_skills,       \* convert_csv_to_json: json_data['skills']
    cv_data,           \* the tailoring's input document but for its entries
    cv_data_in,        \* cv_data as it was when the tailoring was called
    tailored_data,     \* the tailored document as written, but for its entries
    raw_response,      \* create_tailored_cv_with_prompt: what the one call gives
    parsed_by,         \* create_tailored_cv_with_prompt: the parser that accepted
    tailored_cv        \* create_tailored_cv_with_prompt: tailored_cv, as JSON text

vars == <<pc, entries, args, filtered_entries, first_selection, entries_csv,
          json_entries, contact_csv, contact_info, contact_log, contact_info_in,
          cv_entries,
          tailor_args, idx, responses, scored_entries, tailored_entries,
          exported_csv, text_blocks, text_blocks_csv, skills, aside_sections_csv,
          aside_entries_csv, json_text_blocks, json_skills, cv_data, cv_data_in,
          tailored_data, raw_response, parsed_by, tailored_cv>>

convertVars == <<entries, args, filtered_entries, first_selection, entries_csv,
                 json_entries>>
contactVars == <<contact_csv, contact_info, contact_log, contact_info_in>>
tailorVars == <<cv_entries, tailor_args, idx, responses, scored_entries,
                tailored_entries>>
asideVars == <<text_blocks, text_blocks_csv, skills, aside_sections_csv,
               aside_entries_csv, json_text_blocks, json_skills>>
docVars == <<cv_data, cv_data_in, tailored_data, raw_response, parsed_by,
            tailored_cv>>

-----------------------------------------------------------------------------
(* Bounds of the model.                                                    *)

MaxEntries == 2
MaxContactRows == 3
MaxTailorEntries == 3

-----------------------------------------------------------------------------
(* Python str and list primitives.                                         *)

\* The characters the model's strings are made of, in code point order.
Ascii == <<" ", "/", "0", "1", "2", "3", "4", "5", "6", "7", "8", "9",
           "A", "B", "C", "D", "E", "F", "G", "H", "I", "J", "K", "L", "M",
           "N", "O", "P", "Q", "R", "S", "T", "U", "V", "W", "X", "Y", "Z",
           "_",
           "a", "b", "c", "d", "e", "f", "g", "h", "i", "j", "k", "l", "m",
           "n", "o", "p", "q", "r", "s", "t", "u", "v", "w", "x", "y", "z">>

\* ord(c), as a table over the characters
OrdTable == [c \in {Ascii[i] : i \in 1..Len(Ascii)} |->
                CHOOSE i \in 1..Len(Ascii) : Ascii[i] = c]

Ord(c) == OrdTable[c]

Digits == <<"0", "1", "2", "3", "4", "5", "6", "7", "8", "9">>

IsDigitChar(c) == \E i \in 1..10 : Digits[i] = c

DigitValue(c) == (CHOOSE i \in 1..10 : Digits[i] = c) - 1

\* str.isdigit(): non-empty and every character a digit
IsDigit(s) == Len(s) > 0 /\ \A i \in 1..Len(s) : IsDigitChar(s[i])

\* int(s) for a string of digits
RECURSIVE StrToInt(_)
StrToInt(s) ==
    IF Len(s) = 0 THEN 0
    ELSE 10 * StrToInt(SubSeq(s, 1, Len(s) - 1)) + DigitValue(s[Len(s)])

\* str(n) for n >= 0, as an f-string formats it
RECURSIVE IntToStr(_)
IntToStr(n) ==
    IF n < 10 THEN <<Digits[n + 1]>>
    ELSE IntToStr(n \div 10) \o <<Digits[(n % 10) + 1]>>

\* c.upper() and c.lower() of one character, as tables
UpperTable == [c \in DOMAIN OrdTable |->
                  IF OrdTable[c] >= OrdTable["a"] /\ OrdTable[c] <= OrdTable["z"]
                  THEN Ascii[OrdTable[c] - OrdTable["a"] + OrdTable["A"]]
                  ELSE c]

LowerTable == [c \in DOMAIN OrdTable |->
                  IF OrdTable[c] >= OrdTable["A"] /\ OrdTable[c] <= OrdTable["Z"]
                  THEN Ascii[OrdTable[c] - OrdTable["A"] + OrdTable["a"]]
                  ELSE c]

UpperChar(c) == UpperTable[c]

LowerChar(c) == LowerTable[c]

Upper(s) == [i \in 1..Len(s) |-> UpperChar(s[i])]

Lower(s) == [i \in 1..Len(s) |-> LowerChar(s[i])]

StartsWith(s, p) == Len(s) >= Len(p) /\ SubSeq(s, 1, Len(p)) = p

\* s.replace(old, new): every non-overlapping occurrence, left to right
RECURSIVE Replace(_, _, _)
Replace(s, old, new) ==
    IF Len(s) < Len(old) \/ Len(old) = 0 THEN s
    ELSE IF SubSeq(s, 1, Len(old)) = old
         THEN new \o Replace(SubSeq(s, Len(old) + 1, Len(s)), old, new)
         ELSE <<s[1]>> \o Replace(Tail(s), old, new)

\* a < b for two str (code point order, a proper prefix is smaller)
RECURSIVE StrLess(_, _)
StrLess(a, b) ==
    IF Len(b) = 0 THEN FALSE
    ELSE IF Len(a) = 0 THEN TRUE
    ELSE IF a[1] = b[1] THEN StrLess(Tail(a), Tail(b))
    ELSE Ord(a[1]) < Ord(b[1])

\* x in list
In(x, list) == \E i \in 1..Len(list) : list[i] = x

\* set(list)
ToSet(list) == {list[i] : i \in 1..Len(list)}

\* all(flags), any(flags)
PyAll(flags) == \A i \in 1..Len(flags) : flags[i]

PyAny(flags) == \E i \in 1..Len(flags) : flags[i]

\* a tuple key is smaller (tuple comparison of three integers)
KeyLess(a, b) ==
    \/ a[1] < b[1]
    \/ a[1] = b[1] /\ a[2] < b[2]
    \/ a[1] = b[1] /\ a[2] = b[2] /\ a[3] < b[3]

\* the order of two sort keys: of tuples, of str, or of numbers under reverse=True
Before(kind, a, b) ==
    CASE kind = "tuple" -> KeyLess(a, b)
      [] kind = "str" -> StrLess(a, b)
      [] kind = "reverse" -> b < a

\* a sort that is not stable: x goes before the elements of equal key
RECURSIVE InsertSorted_Unstable(_, _, _, _)
InsertSorted_Unstable(sorted, x, keys, kind) ==
    IF Len(sorted) = 0 THEN <<x>>
    ELSE IF ~Before(kind, keys[sorted[Len(sorted)]], keys[x])
         THEN InsertSorted_Unstable(SubSeq(sorted, 1, Len(sorted) - 1), x, keys, kind)
              \o <<sorted[Len(sorted)]>>
         ELSE sorted \o <<x>>

\* list.sort(key=...) and sorted() are stable: the index x goes after every
\* index whose key is not after its own.  keys[i] is the key of element i.
RECURSIVE InsertSorted(_, _, _, _)
InsertSorted(sorted, x, keys, kind) ==
    IF Len(sorted) = 0 THEN <<x>>
    ELSE IF Before(kind, keys[x], keys[sorted[Len(sorted)]])
         THEN InsertSorted(SubSeq(sorted, 1, Len(sorted) - 1), x, keys, kind)
              \o <<sorted[Len(sorted)]>>
         ELSE sorted \o <<x>>

\* the indices 1..n of the elements in sorted order
RECURSIVE SortedIndices(_, _, _)
SortedIndices(n, keys, kind) ==
    IF n = 0 THEN <<>>
    ELSE InsertSorted(SortedIndices(n - 1, keys, kind), n, keys, kind)

StableSort(list, keys, kind) ==
    LET order == SortedIndices(Len(list), keys, kind)
    IN [i \in 1..Len(list) |-> list[order[i]]]

\* the permutations of a finite set, as sequences
RECURSIVE Orders(_)
Orders(S) ==
    IF S = {} THEN {<<>>}
    ELSE UNION {{<<x>> \o o : o \in Orders(S \ {x})} : x \in S}

-----------------------------------------------------------------------------
(* String literals of the source.                                          *)

S_cv == <<"c", "v">>
S_resume == <<"r", "e", "s", "u", "m", "e">>
S_Current == <<"C", "u", "r", "r", "e", "n", "t">>
S_TRUE == <<"T", "R", "U", "E">>
S_FALSE == <<"F", "A", "L", "S", "E">>
S_and == <<"a", "n", "d">>
S_or == <<"o", "r">>
S_section == <<"s", "e", "c", "t", "i", "o", "n">>
S_title == <<"t", "i", "t", "l", "e">>
S_loc == <<"l", "o", "c">>
S_institution == <<"i", "n", "s", "t", "i", "t", "u", "t", "i", "o", "n">>
S_start == <<"s", "t", "a", "r", "t">>
S_end == <<"e", "n", "d">>
S_in_resume == <<"i", "n", "_", "r", "e", "s", "u", "m", "e">>
S_description_ == <<"d", "e", "s", "c", "r", "i", "p", "t", "i", "o", "n", "_">>
S_company_ == <<"c", "o", "m", "p", "a", "n", "y", "_">>
S_education == <<"e", "d", "u", "c", "a", "t", "i", "o", "n">>
S_software == <<"s", "o", "f", "t", "w", "a", "r", "e">>
S_other == <<"o", "t", "h", "e", "r">>

S_expl == <<"e", "x", "p", "l">>

\* the truthy cell values of the tables
Truthy == {S_TRUE, <<"T">>, <<"Y", "E", "S">>, <<"Y">>, <<"1">>}

-----------------------------------------------------------------------------
(* json_to_csv_converter.py: write_entries_csv.                            *)

\* the per-filter match flags: [f in entry_values for f in filters]
Matches(filters, values) == [i \in 1..Len(filters) |-> In(filters[i], values)]

\* the filter logic ignored: every filter must match
FilterAccepts_AlwaysAll(filters, values, filter_logic) ==
    IF Len(filters) = 0 THEN TRUE ELSE PyAll(Matches(filters, values))

\* one filter list against one entry: FALSE where the loop body continues
FilterAccepts(filters, values, filter_logic) ==
    IF Len(filters) = 0 THEN TRUE
    ELSE IF Lower(filter_logic) = S_and /\ ~PyAll(Matches(filters, values))
         THEN FALSE
    ELSE IF Lower(filter_logic) = S_or /\ ~PyAny(Matches(filters, values))
         THEN FALSE
    ELSE TRUE

\* the document type check left out
EntryPasses_NoDocType(entry, a) ==
    /\ FilterAccepts(a.company_filters, entry.companies, a.filter_logic)
    /\ FilterAccepts(a.tag_filters, entry.tags, a.filter_logic)

\* the loop body of the filter: TRUE where the entry is appended
EntryPasses(entry, a) ==
    /\ In(a.doc_type, entry.tags)
    /\ FilterAccepts(a.company_filters, entry.companies, a.filter_logic)
    /\ FilterAccepts(a.tag_filters, entry.tags, a.filter_logic)

FilterEntries(es, a) == SelectSeq(es, LAMBDA e : EntryPasses(e, a))

\* "Current" not put first
SortKey_NoCurrent(x) ==
    << -x.importance, 1, IF IsDigit(x.end) THEN -StrToInt(x.end) ELSE 0 >>

\* the sort key of an entry
SortKey(x) ==
    << -x.importance,
       IF x.end = S_Current THEN 0 ELSE 1,
       IF IsDigit(x.end) THEN -StrToInt(x.end) ELSE 0 >>

\* the sort left out
SortEntries_Unsorted(es) == es

SortEntries(es) == StableSort(es, [i \in 1..Len(es) |-> SortKey(es[i])], "tuple")

\* filtered_entries after the sort
Select(es, a) == SortEntries(FilterEntries(es, a))

\* the width of the first entry instead of the widest
MaxDescriptions_First(es) ==
    IF Len(es) = 0 THEN 0 ELSE Len(es[1].descriptions)

\* max([len(descriptions) ...], default=0)
RECURSIVE MaxDescriptions(_)
MaxDescriptions(es) ==
    IF Len(es) = 0 THEN 0
    ELSE LET m == MaxDescriptions(Tail(es))
             n == Len(es[1].descriptions)
         IN IF n > m THEN n ELSE m

DescriptionHeaders(n) == [i \in 1..n |-> S_description_ \o IntToStr(i)]

\* all_companies: every company of every entry of the document
AllCompanies(es) == UNION {ToSet(es[i].companies) : i \in 1..Len(es)}

CompanyHeaders(order) == [i \in 1..Len(order) |-> S_company_ \o order[i]]

Headers(selected, order) ==
    <<S_section, S_title, S_loc, S_institution, S_start, S_end>>
    \o DescriptionHeaders(MaxDescriptions(selected))
    \o <<S_in_resume>>
    \o CompanyHeaders(order)

EntryRow(entry, max_descriptions, order) ==
    <<entry.section, entry.title, entry.loc, entry.institution, entry.start,
      entry.end>>
    \o entry.descriptions
    \o [i \in 1..(max_descriptions - Len(entry.descriptions)) |-> <<>>]
    \o <<IF In(S_resume, entry.tags) THEN S_TRUE ELSE S_FALSE>>
    \o [i \in 1..Len(order) |->
           IF In(order[i], entry.companies) THEN S_TRUE ELSE S_FALSE]

\* the rows of entries.csv: the explanation row (one sentence per column,
\* abbreviated), the headers, a row per selected entry; order is the iteration
\* order of the set all_companies
EntriesCsv(selected, order) ==
    LET headers == Headers(selected, order)
        max_descriptions == MaxDescriptions(selected)
    IN <<[i \in 1..Len(headers) |-> S_expl], headers>>
       \o [i \in 1..Len(selected) |-> EntryRow(selected[i], max_descriptions, order)]

-----------------------------------------------------------------------------
(* csv_to_json_converter.py: read_csv_file and parse_entries_csv.          *)
(* A file is the sequence of its rows (cells hold no line break, so a row  *)
(* is a line); a file that does not exist has no rows.  A row read by      *)
(* csv.DictReader is a dict: keys in insertion order, val the cell of each.*)

\* the keys of dict(zip(fieldnames, row)): the first occurrence of each name
RECURSIVE Dedup(_)
Dedup(names) ==
    IF Len(names) = 0 THEN <<>>
    ELSE LET front == Dedup(SubSeq(names, 1, Len(names) - 1))
         IN IF In(names[Len(names)], front) THEN front
            ELSE Append(front, names[Len(names)])

\* dict(zip(fieldnames, row)): a repeated name keeps its last cell
DictRow(fieldnames, row) ==
    [keys |-> Dedup(fieldnames),
     val |-> [k \in ToSet(fieldnames) |->
                row[CHOOSE i \in 1..Len(fieldnames) :
                        /\ fieldnames[i] = k
                        /\ \A j \in (i + 1)..Len(fieldnames) : fieldnames[j] # k]]]

\* any(row.values())
AnyValue(row) == \E k \in DOMAIN row.val : row.val[k] # <<>>

\* csv.DictReader over the lines, empty rows skipped
DictRows(lines) ==
    IF Len(lines) = 0 THEN <<>>
    ELSE SelectSeq([i \in 1..(Len(lines) - 1) |-> DictRow(lines[1], lines[i + 1])],
                   AnyValue)

ReadCsvFile(file, has_explanation_row) ==
    IF has_explanation_row
    THEN IF Len(file) <= 2 THEN <<>> ELSE DictRows(Tail(file))
    ELSE DictRows(file)

\* dict.get(key, default)
Get(d, key, default) == IF key \in DOMAIN d.val THEN d.val[key] ELSE default

\* {} and d[key] = value on a dict (insertion order kept, a known key overwritten)
EmptyDict == [keys |-> <<>>, val |-> <<>>]

DictSet(d, key, value) ==
    [keys |-> IF key \in DOMAIN d.val THEN d.keys ELSE Append(d.keys, key),
     val |-> (key :> value) @@ d.val]

\* sorted([k for k in entry.keys() if k.startswith('description_')])
DescriptionKeys(entry) ==
    LET ks == SelectSeq(entry.keys, LAMBDA k : StartsWith(k, S_description_))
    IN StableSort(ks, ks, "str")

ParseDescriptions(entry) ==
    LET ks == DescriptionKeys(entry)
    IN SelectSeq([j \in 1..Len(ks) |-> entry.val[ks[j]]], LAMBDA c : c # <<>>)

ParseCompanies(entry) ==
    LET ks == SelectSeq(entry.keys,
                        LAMBDA k : /\ StartsWith(k, S_company_)
                                   /\ Upper(entry.val[k]) \in Truthy)
    IN [j \in 1..Len(ks) |-> Replace(ks[j], S_company_, <<>>)]

ParseTags(entry) ==
    LET section == Get(entry, S_section, <<>>)
        tags == (IF Upper(Get(entry, S_in_resume, <<>>)) \in Truthy
                 THEN <<S_resume>> ELSE <<>>) \o <<S_cv>>
    IN IF section # <<>> /\ ~In(section, tags) THEN Append(tags, section) ELSE tags

\* json_entry for the row at 0-based index i of n rows
ParseEntry(entry, i, n) ==
    [section |-> Get(entry, S_section, <<>>),
     title |-> Get(entry, S_title, <<>>),
     loc |-> Get(entry, S_loc, <<>>),
     institution |-> Get(entry, S_institution, <<>>),
     start |-> Get(entry, S_start, <<>>),
     end |-> Get(entry, S_end, <<>>),
     descriptions |-> ParseDescriptions(entry),
     companies |-> ParseCompanies(entry),
     tags |-> ParseTags(entry),
     importance |-> n - i]

ParseEntriesCsv(entries_data) ==
    [i \in 1..Len(entries_data) |->
        ParseEntry(entries_data[i], i - 1, Len(entries_data))]

-----------------------------------------------------------------------------
(* csv_to_json_converter.py: parse_contact_info_csv.                       *)

S_icon == <<"i", "c", "o", "n">>
S_contact == <<"c", "o", "n", "t", "a", "c", "t">>
S_id == <<"i", "d">>
S_value == <<"v", "a", "l", "u", "e">>

\* the key a 3-column row is stored under, given the result so far
ContactKey(result, loc, icon) ==
    IF loc \in DOMAIN result.val /\ icon # <<>>
    THEN loc \o <<"_">> \o icon
    ELSE loc

\* one iteration of the loop over the rows read by csv.reader; acc.log holds the
\* key printed for each row added (row_count is its length)
ContactDirectStep(acc, row) ==
    IF Len(row) >= 3 /\ row[1] # <<>> /\ row[3] # <<>>
    THEN LET key == ContactKey(acc.result, row[1], row[2])
         IN [result |-> DictSet(acc.result, key, [value |-> row[3], icon |-> row[2]]),
             log |-> Append(acc.log, key)]
    ELSE acc

RECURSIVE ContactDirect(_)
ContactDirect(rows) ==
    IF Len(rows) = 0 THEN [result |-> EmptyDict, log |-> <<>>]
    ELSE ContactDirectStep(ContactDirect(SubSeq(rows, 1, Len(rows) - 1)),
                           rows[Len(rows)])

\* one iteration of the Dict-based loop
ContactDictStep(acc, item) ==
    IF S_loc \in DOMAIN item.val /\ S_contact \in DOMAIN item.val
    THEN IF item.val[S_loc] # <<>> /\ item.val[S_contact] # <<>>
         THEN [result |-> DictSet(acc.result, item.val[S_loc], item.val[S_contact]),
               log |-> Append(acc.log, item.val[S_loc])]
         ELSE acc
    ELSE IF S_id \in DOMAIN item.val /\ S_value \in DOMAIN item.val
         THEN [result |-> DictSet(acc.result, item.val[S_id], item.val[S_value]),
               log |-> acc.log]
         ELSE acc

RECURSIVE ContactDict(_)
ContactDict(contact_data) ==
    IF Len(contact_data) = 0 THEN [result |-> EmptyDict, log |-> <<>>]
    ELSE ContactDictStep(ContactDict(SubSeq(contact_data, 1, Len(contact_data) - 1)),
                         contact_data[Len(contact_data)])

\* the result and the keys printed; file is contact_info.csv (no rows: the file
\* does not exist, or next(reader) raises and the Dict method is used)
ParseContactInfoCsv(contact_data, file) ==
    LET direct == IF Len(file) = 0 THEN [result |-> EmptyDict, log |-> <<>>]
                  ELSE ContactDirect(Tail(file))
    IN IF Len(direct.log) > 0 THEN direct ELSE ContactDict(contact_data)

S_text == <<"t", "e", "x", "t">>
S_category == <<"c", "a", "t", "e", "g", "o", "r", "y">>
S_display_name == <<"d", "i", "s", "p", "l", "a", "y", "_", "n", "a", "m", "e">>
S_entry == <<"e", "n", "t", "r", "y">>

\* json_block for one row of text_blocks_data, in a list (no block for a row of
\* fewer than two columns)
ParseTextBlock(block) ==
    IF S_loc \in DOMAIN block.val /\ S_text \in DOMAIN block.val
    THEN <<[id |-> block.val[S_loc], content |-> block.val[S_text],
            tags |-> <<S_cv, S_resume>>]>>
    ELSE IF Len(block.keys) >= 2
         THEN <<[id |-> block.val[block.keys[1]], content |-> block.val[block.keys[2]],
                 tags |-> <<S_cv, S_resume>>]>>
         ELSE <<>>

RECURSIVE ParseTextBlocksCsv(_)
ParseTextBlocksCsv(text_blocks_data) ==
    IF Len(text_blocks_data) = 0 THEN <<>>
    ELSE ParseTextBlock(Head(text_blocks_data))
         \o ParseTextBlocksCsv(Tail(text_blocks_data))

\* entries_by_category[category]: the skills of the rows of that category
EntriesByCategory(entries_data, category) ==
    LET rows == SelectSeq(entries_data,
                          LAMBDA entry : Get(entry, S_category, <<>>) = category)
    IN [i \in 1..Len(rows) |-> [name |-> Get(rows[i], S_entry, <<>>), level |-> <<>>]]

\* the skills: one category for each section row whose category has entries
ParseAsideSectionsAndEntries(sections_data, entries_data) ==
    LET kept == SelectSeq(sections_data,
                          LAMBDA section :
                             /\ Get(section, S_category, <<>>) # <<>>
                             /\ EntriesByCategory(entries_data,
                                                  Get(section, S_category, <<>>)) # <<>>)
    IN [i \in 1..Len(kept) |->
          [category |-> Get(kept[i], S_display_name, <<>>),
           entries |-> EntriesByCategory(entries_data, Get(kept[i], S_category, <<>>)),
           tags |-> <<S_cv, S_resume>>]]

-----------------------------------------------------------------------------
(* ai_cv_generator.py: score_entry_relevance and create_tailored_json.     *)
(* A value whose Python type matters is tagged with it: PyStr(s), PyNone.  *)
(* Scores are whole numbers; error texts are abbreviated.                  *)

S_openai == <<"o", "p", "e", "n", "a", "i">>
S_claude == <<"c", "l", "a", "u", "d", "e">>
S_Error == <<"E", "r", "r", "o", "r">>
S_Unable == <<"U", "n", "a", "b", "l", "e">>

PyStr(s) == [type |-> "str", val |-> s]

PyNone == [type |-> "NoneType", val |-> <<>>]

PyDict(d) == [type |-> "dict", val |-> d]

S_current_position == <<"c", "u", "r", "r", "e", "n", "t", "_", "p", "o", "s", "i", "t", "i", "o", "n">>
S_research_positions == <<"r", "e", "s", "e", "a", "r", "c", "h", "_", "p", "o", "s", "i", "t", "i", "o", "n", "s">>
S_awards_and_honors == <<"a", "w", "a", "r", "d", "s", "_", "a", "n", "d", "_", "h", "o", "n", "o", "r", "s">>
S_teaching_positions == <<"t", "e", "a", "c", "h", "i", "n", "g", "_", "p", "o", "s", "i", "t", "i", "o", "n", "s">>
S_academic_articles == <<"a", "c", "a", "d", "e", "m", "i", "c", "_", "a", "r", "t", "i", "c", "l", "e", "s">>
S_invited_speaker == <<"i", "n", "v", "i", "t", "e", "d", "_", "s", "p", "e", "a", "k", "e", "r">>
S_mentorship == <<"m", "e", "n", "t", "o", "r", "s", "h", "i", "p">>

\* the table used when max_entries_per_section is None
DefaultMaxEntries ==
    [keys |-> <<S_current_position, S_education, S_research_positions,
                S_awards_and_honors, S_teaching_positions, S_academic_articles,
                S_software, S_invited_speaker, S_mentorship>>,
     val |-> (S_current_position :> 2) @@ (S_education :> 2)
             @@ (S_research_positions :> 3) @@ (S_awards_and_honors :> 3)
             @@ (S_teaching_positions :> 2) @@ (S_academic_articles :> 3)
             @@ (S_software :> 3) @@ (S_invited_speaker :> 2)
             @@ (S_mentorship :> 2)]

\* max_entries_per_section after the default is filled in
MaxEntriesPerSection(arg) ==
    IF arg.type = "NoneType" THEN DefaultMaxEntries ELSE arg.val

\* score_entry_relevance: (score, reasoning, improved_descriptions) for what
\* the service did: "raise" (the call raised), "unparseable" (text that is not
\* JSON) or "json" (an object with score, reasoning, improved_descriptions)
ScoreEntryRelevance(response, service) ==
    CASE response.kind = "raise" ->
            [score |-> 0, reasoning |-> PyStr(S_Error), improved_descriptions |-> <<>>]
      [] response.kind = "unparseable" ->
            IF service = S_claude
            THEN [score |-> 5, reasoning |-> PyStr(S_Unable),
                  improved_descriptions |-> <<>>]
            ELSE [score |-> 0, reasoning |-> PyStr(S_Error),
                  improved_descriptions |-> <<>>]
      [] response.kind = "json" ->
            [score |-> response.score, reasoning |-> response.reasoning,
             improved_descriptions |-> response.improved_descriptions]

\* the suggestions taken whether or not improve_descriptions is set
ScoredEntry_AlwaysRewrite(entry, result, improve_descriptions) ==
    IF result.improved_descriptions # <<>>
    THEN [relevance_score |-> result.score,
          relevance_reasoning |-> result.reasoning,
          original_descriptions |-> entry.descriptions,
          descriptions |-> result.improved_descriptions] @@ entry
    ELSE [relevance_score |-> result.score,
          relevance_reasoning |-> result.reasoning] @@ entry

\* scored_entry: the copy of the entry with the score information (a key set
\* on the copy replaces the entry's own)
ScoredEntry(entry, result, improve_descriptions) ==
    IF improve_descriptions /\ result.improved_descriptions # <<>>
    THEN [relevance_score |-> result.score,
          relevance_reasoning |-> result.reasoning,
          original_descriptions |-> entry.descriptions,
          descriptions |-> result.improved_descriptions] @@ entry
    ELSE [relevance_score |-> result.score,
          relevance_reasoning |-> result.reasoning] @@ entry

\* entry.get("section", "other")
SectionOf(entry) == IF "section" \in DOMAIN entry THEN entry.section ELSE S_other

\* reasoning[:50] is defined (a str can be sliced, None cannot)
CanSlice(reasoning) == reasoning.type = "str"

\* the sections in the order last met
SectionOrder_LastMet(scored) ==
    LET n == Len(scored)
        backwards == Dedup([i \in 1..n |-> SectionOf(scored[n + 1 - i])])
    IN [k \in 1..Len(backwards) |-> backwards[Len(backwards) + 1 - k]]

\* the sections in the order first met: the keys of section_entries
SectionOrder(scored) == Dedup([i \in 1..Len(scored) |-> SectionOf(scored[i])])

\* section_entries[section]
SectionEntries(scored, section) ==
    SelectSeq(scored, LAMBDA e : SectionOf(e) = section)

\* entries.sort(key=relevance_score, reverse=True)
SortByScore(es) ==
    StableSort(es, [i \in 1..Len(es) |-> es[i].relevance_score], "reverse")

\* max_entries_per_section.get(section, 2)
MaxEntriesFor(max_entries_per_section, section) ==
    Get(max_entries_per_section, section, 2)

\* list[:n] for n >= 0
Take(list, n) == SubSeq(list, 1, IF n < Len(list) THEN n ELSE Len(list))

\* the floor left out
SelectedEntries_NoFloor(es, max_entries) == Take(SortByScore(es), max_entries)

\* selected_entries of one section
SelectedEntries(es, max_entries) ==
    SelectSeq(Take(SortByScore(es), max_entries), LAMBDA e : e.relevance_score >= 3)

RECURSIVE Concat(_)
Concat(lists) == IF Len(lists) = 0 THEN <<>> ELSE lists[1] \o Concat(Tail(lists))

\* tailored_entries
TailoredEntries(scored, max_entries_per_section) ==
    LET sections == SectionOrder(scored)
    IN Concat([k \in 1..Len(sections) |->
                 SelectedEntries(SectionEntries(scored, sections[k]),
                                 MaxEntriesFor(max_entries_per_section, sections[k]))])

S_meta_last_updated == <<"l", "a", "s", "t", "_", "u", "p", "d", "a", "t", "e", "d">>
S_generated_by == <<"g", "e", "n", "e", "r", "a", "t", "e", "d", "_", "b", "y">>
S_generated_for == <<"g", "e", "n", "e", "r", "a", "t", "e", "d", "_", "f", "o", "r">>
S_original_file == <<"o", "r", "i", "g", "i", "n", "a", "l", "_", "f", "i", "l", "e">>
S_ai_cv_generator_py == <<"a", "i", "_", "c", "v", "_", "g", "e", "n", "e", "r", "a", "t",
                          "o", "r", ".", "p", "y">>
S_Job_Application == <<"J", "o", "b", " ", "A", "p", "p", "l", "i", "c", "a", "t", "i",
                       "o", "n">>
S_cv_data_json == <<"c", "v", "_", "d", "a", "t", "a", ".", "j", "s", "o", "n">>

\* datetime.now().strftime("%Y-%m-%d"): the day of the run
Dates == {<<"2", "0", "2", "5", "-", "0", "1", "-", "0", "1">>,
          <<"2", "0", "2", "5", "-", "0", "1", "-", "0", "2">>}

\* the meta create_tailored_json writes
TailoredMeta(now) ==
    DictSet(DictSet(DictSet(DictSet(EmptyDict, S_meta_last_updated, now),
                            S_generated_by, S_ai_cv_generator_py),
                    S_generated_for, S_Job_Application),
            S_original_file, S_cv_data_json)

\* the tailored document with its skills left out
TailoredData_NoSkills(data, now) ==
    [meta |-> TailoredMeta(now), contact_info |-> data.contact_info,
     skills |-> <<>>, text_blocks |-> data.text_blocks]

\* tailored_data but for its entries
TailoredData(data, now) ==
    [meta |-> TailoredMeta(now),
     contact_info |-> data.contact_info,
     skills |-> data.skills,
     text_blocks |-> data.text_blocks]

-----------------------------------------------------------------------------
(* The documents and arguments the export is run on.                       *)

CompanyA == <<"A">>
CompanyB == <<"B">>

Importances == {1, 2}

Ends == {S_Current, <<"2", "0", "2", "0">>, <<"0">>, <<>>}

\* section, title, descriptions, companies and tags of the entries
Profiles ==
    { [section |-> S_education, title |-> <<"P", "h", "D">>,
       descriptions |-> << <<"d", "1">>, <<"d", "2">> >>,
       companies |-> <<CompanyA>>,
       tags |-> <<S_resume, S_cv, S_education>>],
      [section |-> S_software, title |-> <<"p", "k", "g">>,
       descriptions |-> << <<"d", "3">> >>,
       companies |-> <<CompanyA, CompanyB>>,
       tags |-> <<S_cv, S_software>>],
      [section |-> S_education, title |-> <<"B", "S", "c">>,
       descriptions |-> <<>>,
       companies |-> <<>>,
       tags |-> <<S_resume, S_cv>>] }

EntryPool ==
    { [section |-> p.section, title |-> p.title, loc |-> <<"N", "Y">>,
       institution |-> <<"U">>, start |-> <<"2", "0", "1", "0">>, end |-> e,
       descriptions |-> p.descriptions, companies |-> p.companies,
       tags |-> p.tags, importance |-> imp]
      : p \in Profiles, e \in Ends, imp \in Importances }

SeqsUpTo(S, n) == UNION {[1..k -> S] : k \in 0..n}

Documents == SeqsUpTo(EntryPool, MaxEntries)

ArgsSet ==
    [doc_type : {S_cv, S_resume},
     company_filters : {<<>>, <<CompanyA, CompanyB>>},
     tag_filters : {<<>>, <<S_education, S_resume>>},
     filter_logic : {S_and, S_or}]

NoArgs == [doc_type |-> <<>>, company_filters |-> <<>>, tag_filters |-> <<>>,
           filter_logic |-> <<>>]

NoTailorArgs == [max_entries_per_section |-> PyNone, improve_descriptions |-> FALSE,
                 service |-> <<>>]

ContactIdle ==
    /\ contact_csv = <<>>
    /\ contact_info = EmptyDict
    /\ contact_log = <<>>
    /\ contact_info_in = EmptyDict

TailorIdle ==
    /\ cv_entries = <<>>
    /\ tailor_args = NoTailorArgs
    /\ idx = 0
    /\ responses = <<>>
    /\ scored_entries = <<>>
    /\ tailored_entries = <<>>

ConvertIdle ==
    /\ entries = <<>>
    /\ args = NoArgs
    /\ filtered_entries = <<>>
    /\ first_selection = <<>>
    /\ entries_csv = <<>>
    /\ json_entries = <<>>

AsideIdle ==
    /\ exported_csv = <<>>
    /\ text_blocks = <<>>
    /\ text_blocks_csv = <<>>
    /\ skills = <<>>
    /\ aside_sections_csv = <<>>
    /\ aside_entries_csv = <<>>
    /\ json_text_blocks = <<>>
    /\ json_skills = <<>>

\* a document that holds nothing but entries
NoCvData == [meta |-> EmptyDict, contact_info |-> EmptyDict, skills |-> <<>>,
             text_blocks |-> <<>>]

\* no call made: nothing raised, nothing returned
NoResponse == [raises |-> FALSE, text |-> <<>>]

PromptIdle ==
    /\ raw_response = NoResponse
    /\ parsed_by = ""
    /\ tailored_cv = <<>>

DocIdle ==
    /\ cv_data = NoCvData
    /\ cv_data_in = NoCvData
    /\ tailored_data = NoCvData
    /\ PromptIdle

-----------------------------------------------------------------------------
(* json_to_csv_converter.py run on a document, then again on its selection.*)

Init ==
    /\ pc = "start"
    /\ entries \in Documents
    /\ args = NoArgs
    /\ filtered_entries = <<>>
    /\ first_selection = <<>>
    /\ entries_csv = <<>>
    /\ json_entries = <<>>
    /\ ContactIdle
    /\ TailorIdle
    /\ AsideIdle
    /\ DocIdle

\* write_entries_csv(data, output_dir, doc_type, company_filters, tag_filters,
\* filter_logic)
WriteEntriesCsv ==
    /\ pc = "start"
    /\ \E a \in ArgsSet, order \in Orders(AllCompanies(entries)) :
          LET selected == Select(entries, a)
          IN /\ args' = a
             /\ filtered_entries' = selected
             /\ entries_csv' = EntriesCsv(selected, order)
    /\ pc' = "written"
    /\ UNCHANGED <<entries, first_selection, json_entries, contactVars, tailorVars,
                   exported_csv, asideVars, docVars>>

\* write_entries_csv with the same arguments on the document whose entries are
\* the entries selected by the first run
WriteEntriesCsvAgain ==
    /\ pc = "written"
    /\ first_selection' = filtered_entries
    /\ entries' = filtered_entries
    /\ \E order \in Orders(AllCompanies(filtered_entries)) :
          LET selected == Select(filtered_entries, args)
          IN /\ filtered_entries' = selected
             /\ entries_csv' = EntriesCsv(selected, order)
    /\ pc' = "rewritten"
    /\ UNCHANGED <<args, json_entries, contactVars, tailorVars, exported_csv,
                   asideVars, docVars>>

\* convert_csv_to_json(input_dir, output_file): the entries and the contact
\* information of json_data
ConvertCsvToJson ==
    /\ pc \in {"written", "tables", "contact_written", "blocks_written",
               "aside_written"}
    /\ json_entries' = ParseEntriesCsv(ReadCsvFile(entries_csv, TRUE))
    /\ LET parsed == ParseContactInfoCsv(ReadCsvFile(contact_csv, TRUE), contact_csv)
       IN /\ contact_info' = parsed.result
          /\ contact_log' = parsed.log
    /\ json_text_blocks' = ParseTextBlocksCsv(ReadCsvFile(text_blocks_csv, TRUE))
    /\ json_skills' =
          ParseAsideSectionsAndEntries(ReadCsvFile(aside_sections_csv, FALSE),
                                       ReadCsvFile(aside_entries_csv, FALSE))
    /\ pc' = IF pc \in {"written", "tables"} THEN "parsed" ELSE "reimported"
    /\ UNCHANGED <<entries, args, filtered_entries, first_selection, entries_csv,
                   contact_csv, contact_info_in, tailorVars, exported_csv,
                   text_blocks, text_blocks_csv, skills, aside_sections_csv,
                   aside_entries_csv, docVars>>

Next == WriteEntriesCsv \/ WriteEntriesCsvAgain \/ ConvertCsvToJson

Spec == Init /\ [][Next]_vars

-----------------------------------------------------------------------------
(* csv_to_json_converter.py run on a directory holding contact_info.csv.   *)

ContactRowPool ==
    { <<loc, icon, contact>> :
        loc \in {<<"w">>, <<"w", "_", "g">>},
        icon \in {<<>>, <<"g">>, <<"b">>},
        contact \in {<<>>, <<"x">>, <<"y">>} }

ContactFiles ==
    { << <<S_loc, S_icon, S_contact>> >> \o rows :
        rows \in SeqsUpTo(ContactRowPool, MaxContactRows) }

InitContact ==
    /\ pc = "tables"
    /\ ConvertIdle
    /\ contact_csv \in ContactFiles
    /\ contact_info = EmptyDict
    /\ contact_log = <<>>
    /\ contact_info_in = EmptyDict
    /\ TailorIdle
    /\ AsideIdle
    /\ DocIdle

S_email == <<"e", "m", "a", "i", "l">>
S_envelope == <<"e", "n", "v", "e", "l", "o", "p", "e">>
S_phone == <<"p", "h", "o", "n", "e">>
S_website == <<"w", "e", "b", "s", "i", "t", "e">>
S_globe == <<"g", "l", "o", "b", "e">>
S_github == <<"g", "i", "t", "h", "u", "b">>
S_linkedin == <<"l", "i", "n", "k", "e", "d", "i", "n">>

\* the places of the underscores of a key
Underscores(key) == {i \in 1..Len(key) : key[i] = "_"}

\* the loc taken from a key: parts[0] of a key with exactly one underscore
KeyLoc(key) ==
    IF Cardinality(Underscores(key)) = 1
    THEN SubSeq(key, 1, (CHOOSE i \in Underscores(key) : TRUE) - 1)
    ELSE key

\* the icon taken from a key: parts[1] of a key with exactly one underscore
KeyIcon(key) ==
    IF Cardinality(Underscores(key)) = 1
    THEN SubSeq(key, (CHOOSE i \in Underscores(key) : TRUE) + 1, Len(key))
    ELSE <<>>

\* the row written for a key whose value is a dict with 'value' (every value
\* that parse_contact_info_csv stores for a row of a 3-column table)
ContactRow(key, value) ==
    <<KeyLoc(key),
      IF "icon" \in DOMAIN value THEN value.icon ELSE KeyIcon(key),
      value.value>>

\* the rows written when there is no contact information
common_fields ==
    << <<S_email, S_envelope, <<>> >>, <<S_phone, S_phone, <<>> >>,
       <<S_website, S_globe, <<>> >>, <<S_github, S_github, <<>> >>,
       <<S_linkedin, S_linkedin, <<>> >> >>

\* the rows of contact_info.csv as write_contact_info_csv writes them
ContactInfoCsv(info) ==
    << <<S_loc, S_icon, S_contact>> >>
       \o (IF Len(info.keys) > 0
           THEN [i \in 1..Len(info.keys) |-> ContactRow(info.keys[i], info.val[info.keys[i]])]
           ELSE common_fields)

\* write_contact_info_csv(data, output_dir) on the document convert_csv_to_json
\* has written, into the directory the next import reads
WriteContactInfoCsv ==
    /\ pc = "parsed"
    /\ contact_info_in' = contact_info
    /\ contact_csv' = ContactInfoCsv(contact_info)
    /\ pc' = "contact_written"
    /\ UNCHANGED <<convertVars, contact_info, contact_log, tailorVars, exported_csv,
                   asideVars, docVars>>

NextContact == ConvertCsvToJson \/ WriteContactInfoCsv

SpecContact == InitContact /\ [][NextContact]_vars

-----------------------------------------------------------------------------
(* ai_cv_generator.py: create_tailored_json run on a document, the scoring *)
(* service answering each call in any of the ways it can.                  *)

S_ok == <<"o", "k">>

\* entry number i of a document, in the given section (<<>>: no section key)
TailorEntry(i, section) ==
    IF section = <<>>
    THEN [title |-> <<"e">> \o IntToStr(i), descriptions |-> << <<"d">> >>]
    ELSE [section |-> section, title |-> <<"e">> \o IntToStr(i),
          descriptions |-> << <<"d">> >>]

TailorDocuments ==
    UNION {{[i \in 1..k |-> TailorEntry(i, sections[i])] :
              sections \in [1..k -> {S_education, S_software, <<>>}]} :
           k \in 0..MaxTailorEntries}

TailorArgsSet ==
    [max_entries_per_section :
        {PyNone, PyDict([keys |-> <<S_education>>, val |-> (S_education :> 1)])},
     improve_descriptions : BOOLEAN,
     service : {S_openai, S_claude}]

JsonResponse(score, reasoning, improved_descriptions) ==
    [kind |-> "json", score |-> score, reasoning |-> reasoning,
     improved_descriptions |-> improved_descriptions]

\* what the service can do on one call
Responses ==
    {[kind |-> "raise", score |-> 0, reasoning |-> PyNone,
      improved_descriptions |-> <<>>],
     [kind |-> "unparseable", score |-> 0, reasoning |-> PyNone,
      improved_descriptions |-> <<>>],
     JsonResponse(2, PyStr(S_ok), <<>>),
     JsonResponse(3, PyStr(S_ok), <<>>),
     JsonResponse(9, PyStr(S_ok), << <<"D">> >>),
     JsonResponse(7, PyNone, <<>>)}

InitTailor ==
    /\ pc = "scoring"
    /\ ConvertIdle
    /\ ContactIdle
    /\ cv_entries \in TailorDocuments
    /\ tailor_args \in TailorArgsSet
    /\ idx = 0
    /\ responses = <<>>
    /\ scored_entries = <<>>
    /\ tailored_entries = <<>>
    /\ AsideIdle
    /\ DocIdle

\* one pass of the scoring loop of create_tailored_json; the print that ends
\* the pass raises when reasoning cannot be sliced, which ends the run
ScoreEntry ==
    /\ pc = "scoring"
    /\ idx < Len(cv_entries)
    /\ \E response \in Responses :
          LET entry == cv_entries[idx + 1]
              result == ScoreEntryRelevance(response, tailor_args.service)
          IN /\ responses' = Append(responses, response)
             /\ scored_entries' =
                   Append(scored_entries,
                          ScoredEntry(entry, result, tailor_args.improve_descriptions))
             /\ \/ /\ CanSlice(result.reasoning)
                   /\ pc' = "scoring"
                \/ /\ ~CanSlice(result.reasoning)
                   /\ pc' = "aborted"
    /\ idx' = idx + 1
    /\ UNCHANGED <<convertVars, contactVars, cv_entries, tailor_args,
                   tailored_entries, exported_csv, asideVars, docVars>>

\* create_tailored_json after the scoring loop: grouping, selection, json.dump
WriteTailoredJson ==
    /\ pc = "scoring"
    /\ idx = Len(cv_entries)
    /\ tailored_entries' =
          TailoredEntries(scored_entries,
                          MaxEntriesPerSection(tailor_args.max_entries_per_section))
    /\ \E now \in Dates : tailored_data' = TailoredData(cv_data, now)
    /\ pc' = "done"
    /\ UNCHANGED <<convertVars, contactVars, cv_entries, tailor_args, idx,
                   responses, scored_entries, exported_csv, asideVars, cv_data,
                   cv_data_in, raw_response, parsed_by, tailored_cv>>

NextTailor == ScoreEntry \/ WriteTailoredJson

SpecTailor == InitTailor /\ [][NextTailor]_vars

-----------------------------------------------------------------------------
(* csv_to_json_converter.py run on an entries table, then                  *)
(* json_to_csv_converter.py on the document it gives.  The explanation row *)
(* of a table is optional.                                                 *)

MaxRows == 3

S_yes == <<"y", "e", "s">>

\* the header row of an entries table with n description columns
TableHeader(n) ==
    <<S_section, S_title, S_loc, S_institution, S_start, S_end>>
    \o DescriptionHeaders(n)
    \o <<S_in_resume, S_company_ \o CompanyA>>

\* the text of description cell k
CellText(k) == <<"t">> \o IntToStr(k)

\* the description cells of a row: those of the columns in keep are filled
DescriptionCells(n, keep) == [k \in 1..n |-> IF k \in keep THEN CellText(k) ELSE <<>>]

\* row number i of a table with n description columns
TableRow(i, n, section, keep, in_resume) ==
    <<section, <<"r">> \o IntToStr(i), <<"N", "Y">>, <<"U">>,
      <<"2", "0", "1", "0">>, <<"2", "0", "2", "0">>>>
    \o DescriptionCells(n, keep)
    \o <<in_resume, S_TRUE>>

\* the data rows of the tables with n description columns and up to m rows
TableRows(n, m) ==
    UNION {{[i \in 1..k |-> TableRow(i, n, c[i].section, c[i].keep, c[i].in_resume)] :
              c \in [1..k -> [section : {S_education, S_resume},
                              keep : {1..n, {2, n}},
                              in_resume : {S_TRUE, S_yes, S_FALSE}]]} :
           k \in 0..m}

\* the tables of the given rows under their header, with and without the
\* explanation row
TablesOf(n, rowsets) ==
    {<<TableHeader(n)>> \o rows : rows \in rowsets}
    \cup {<<[i \in 1..Len(TableHeader(n)) |-> S_expl], TableHeader(n)>> \o rows :
            rows \in rowsets}

\* entries tables with 2 description columns, and with 10 description columns
\* and at most one row
EntryTables == TablesOf(2, TableRows(2, MaxRows)) \cup TablesOf(10, TableRows(10, 1))

\* the export of the imported document is asked for cv or resume, no filters
TableArgsSet ==
    [doc_type : {S_cv, S_resume}, company_filters : {<<>>}, tag_filters : {<<>>},
     filter_logic : {S_and}]

InitTable ==
    /\ pc = "tables"
    /\ entries_csv \in EntryTables
    /\ entries = <<>>
    /\ args = NoArgs
    /\ filtered_entries = <<>>
    /\ first_selection = <<>>
    /\ json_entries = <<>>
    /\ ContactIdle
    /\ TailorIdle
    /\ AsideIdle
    /\ DocIdle

\* write_entries_csv on the document convert_csv_to_json has written
WriteImportedCsv ==
    /\ pc = "parsed"
    /\ entries' = json_entries
    /\ \E a \in TableArgsSet, order \in Orders(AllCompanies(json_entries)) :
          LET selected == Select(json_entries, a)
          IN /\ args' = a
             /\ filtered_entries' = selected
             /\ exported_csv' = EntriesCsv(selected, order)
    /\ pc' = "reexported"
    /\ UNCHANGED <<first_selection, entries_csv, json_entries, contactVars,
                   tailorVars, text_blocks, text_blocks_csv, skills,
                   aside_sections_csv, aside_entries_csv, json_text_blocks,
                   json_skills, docVars>>

NextTable == ConvertCsvToJson \/ WriteImportedCsv

SpecTable == InitTable /\ [][NextTable]_vars

-----------------------------------------------------------------------------
(* ai_cv_generator.py: the text the service returns to                     *)
(* create_tailored_cv_with_prompt, its cleaning and its parsers.  A parsed *)
(* document is held as its compact JSON text (json.dumps with separators   *)
(* ',' and ':'), so that two parses can be compared.  Texts hold objects,  *)
(* arrays, strings, integers and the three names; they hold no code fence. *)

DQ == "\""
SQ == "'"
BSL == "\\"

\* \s and \w of the re module, on the characters of the texts
IsSpace(c) == c \in {" ", "\n", "\t"}

IsWord(c) == c \in DOMAIN OrdTable /\ ~(c \in {" ", "/"})

\* the first position from i on that holds no white space
RECURSIVE SkipSpace(_, _)
SkipSpace(s, i) ==
    IF i <= Len(s) /\ IsSpace(s[i]) THEN SkipSpace(s, i + 1) ELSE i

\* the first position from i on that holds no word character
RECURSIVE SkipWord(_, _)
SkipWord(s, i) ==
    IF i <= Len(s) /\ IsWord(s[i]) THEN SkipWord(s, i + 1) ELSE i

\* re.sub(r',\s*([\}\]])', r'\1', json_str)
RECURSIVE DropTrailingCommas(_)
DropTrailingCommas(s) ==
    IF Len(s) = 0 THEN <<>>
    ELSE LET j == SkipSpace(s, 2)
         IN IF s[1] = "," /\ j <= Len(s) /\ s[j] \in {"}", "]"}
            THEN <<s[j]>> \o DropTrailingCommas(SubSeq(s, j + 1, Len(s)))
            ELSE <<s[1]>> \o DropTrailingCommas(Tail(s))

\* re.sub(r'([\{,:]\s*)(\w+):\s*', r'\1"\2":', json_str)
RECURSIVE QuoteKeys(_)
QuoteKeys(s) ==
    IF Len(s) = 0 THEN <<>>
    ELSE LET w == SkipSpace(s, 2)
             c == SkipWord(s, w)
         IN IF s[1] \in {"{", ",", ":"} /\ c > w /\ c <= Len(s) /\ s[c] = ":"
            THEN SubSeq(s, 1, w - 1) \o <<DQ>> \o SubSeq(s, w, c - 1) \o <<DQ, ":">>
                 \o QuoteKeys(SubSeq(s, SkipSpace(s, c + 1), Len(s)))
            ELSE <<s[1]>> \o QuoteKeys(Tail(s))

\* the while loop of fix_json_string: a single quote outside a double-quoted
\* string becomes a double quote; in_single_quote is never set
RECURSIVE ReplaceSingleQuotes(_, _)
ReplaceSingleQuotes(s, in_string) ==
    IF Len(s) = 0 THEN <<>>
    ELSE IF s[1] = BSL /\ Len(s) >= 2
         THEN <<s[1], s[2]>> \o ReplaceSingleQuotes(SubSeq(s, 3, Len(s)), in_string)
         ELSE LET now_in == IF s[1] = DQ THEN ~in_string ELSE in_string
              IN <<IF s[1] = SQ /\ ~now_in THEN DQ ELSE s[1]>>
                 \o ReplaceSingleQuotes(Tail(s), now_in)

\* fix_json_string(json_str)
FixJsonString(json_str) ==
    ReplaceSingleQuotes(QuoteKeys(DropTrailingCommas(json_str)), FALSE)

\* re.search(r'(\{.+\})', cleaned_response, re.DOTALL) when the text does not
\* start, white space apart, with a brace: from the first { to the last }
ExtractObject(text) ==
    LET start == SkipSpace(text, 1)
        opens == {i \in 1..Len(text) : text[i] = "{"}
        closes == {j \in 1..Len(text) : text[j] = "}"}
    IN IF start <= Len(text) /\ text[start] = "{" THEN text
       ELSE IF \E i \in opens, j \in closes : j >= i + 2
            THEN LET i == CHOOSE i \in opens : \A k \in opens : i <= k
                     j == CHOOSE j \in closes : \A k \in closes : k <= j
                 IN IF j >= i + 2 THEN SubSeq(text, i, j) ELSE text
            ELSE text

\* tailored_cv_json: the text the parsers are given
TailoredCvJson(service, text) ==
    IF service = S_claude THEN FixJsonString(ExtractObject(text)) ELSE text

\* what a parser accepts beyond JSON: single-quoted strings, a comma before a
\* closing bracket, keys without quotes; and how it spells the three names
JsonSyntax ==
    [single |-> FALSE, trailing |-> FALSE, bare |-> FALSE,
     names |-> << <<"t", "r", "u", "e">>, <<"f", "a", "l", "s", "e">>,
                  <<"n", "u", "l", "l">> >>]

PythonSyntax ==
    [single |-> TRUE, trailing |-> TRUE, bare |-> FALSE,
     names |-> << <<"T", "r", "u", "e">>, <<"F", "a", "l", "s", "e">>,
                  <<"N", "o", "n", "e">> >>]

LenientSyntax ==
    [single |-> TRUE, trailing |-> TRUE, bare |-> TRUE, names |-> JsonSyntax.names]

NoParse == [ok |-> FALSE, pos |-> 0, out |-> <<>>]

\* the position of the quote that closes the string opened before i, 0 if none
RECURSIVE StringEnd(_, _, _)
StringEnd(s, i, quote) ==
    IF i > Len(s) THEN 0
    ELSE IF s[i] = BSL THEN StringEnd(s, i + 2, quote)
    ELSE IF s[i] = quote THEN i
    ELSE StringEnd(s, i + 1, quote)

\* a string literal at i
ParseString(s, i, syntax) ==
    IF i <= Len(s) /\ (s[i] = DQ \/ (s[i] = SQ /\ syntax.single))
    THEN LET e == StringEnd(s, i + 1, s[i])
         IN IF e = 0 THEN NoParse
            ELSE [ok |-> TRUE, pos |-> e + 1,
                  out |-> <<DQ>> \o SubSeq(s, i + 1, e - 1) \o <<DQ>>]
    ELSE NoParse

\* an integer or one of the three names at i
ParseAtom(s, i, syntax) ==
    LET e == SkipWord(s, i)
        word == SubSeq(s, i, e - 1)
    IN IF IsDigit(word) /\ (Len(word) = 1 \/ word[1] # "0")
       THEN [ok |-> TRUE, pos |-> e, out |-> word]
       ELSE IF \E k \in 1..3 : syntax.names[k] = word
            THEN [ok |-> TRUE, pos |-> e,
                  out |-> JsonSyntax.names[CHOOSE k \in 1..3 : syntax.names[k] = word]]
            ELSE NoParse

\* a key at i: a string, or a word where the syntax allows it
ParseKey(s, i, syntax) ==
    LET e == SkipWord(s, i)
    IN IF syntax.bare /\ e > i /\ ~IsDigitChar(s[i])
       THEN [ok |-> TRUE, pos |-> e, out |-> <<DQ>> \o SubSeq(s, i, e - 1) \o <<DQ>>]
       ELSE ParseString(s, i, syntax)

RECURSIVE ParseValue(_, _, _)
RECURSIVE ParseMembers(_, _, _, _, _)
RECURSIVE ParseElements(_, _, _, _, _)

\* the value that starts at i, white space skipped
ParseValue(s, i, syntax) ==
    LET j == SkipSpace(s, i)
    IN IF j > Len(s) THEN NoParse
       ELSE IF s[j] = "{" THEN ParseMembers(s, j + 1, syntax, <<>>, FALSE)
       ELSE IF s[j] = "[" THEN ParseElements(s, j + 1, syntax, <<>>, FALSE)
       ELSE IF s[j] \in {DQ, SQ} THEN ParseString(s, j, syntax)
       ELSE ParseAtom(s, j, syntax)

\* the members of an object from i on; out holds the members before i
ParseMembers(s, i, syntax, out, after_comma) ==
    LET j == SkipSpace(s, i)
    IN IF j > Len(s) THEN NoParse
       ELSE IF s[j] = "}" /\ (~after_comma \/ syntax.trailing)
       THEN [ok |-> TRUE, pos |-> j + 1, out |-> <<"{">> \o out \o <<"}">>]
       ELSE LET key == ParseKey(s, j, syntax)
                c == SkipSpace(s, key.pos)
            IN IF ~key.ok \/ c > Len(s) \/ s[c] # ":" THEN NoParse
               ELSE LET val == ParseValue(s, c + 1, syntax)
                        e == SkipSpace(s, val.pos)
                        members == out \o (IF out = <<>> THEN <<>> ELSE <<",">>)
                                       \o key.out \o <<":">> \o val.out
                    IN IF ~val.ok \/ e > Len(s) THEN NoParse
                       ELSE IF s[e] = ","
                       THEN ParseMembers(s, e + 1, syntax, members, TRUE)
                       ELSE IF s[e] = "}"
                       THEN [ok |-> TRUE, pos |-> e + 1,
                             out |-> <<"{">> \o members \o <<"}">>]
                       ELSE NoParse

\* the elements of an array from i on; out holds the elements before i
ParseElements(s, i, syntax, out, after_comma) ==
    LET j == SkipSpace(s, i)
    IN IF j > Len(s) THEN NoParse
       ELSE IF s[j] = "]" /\ (~after_comma \/ syntax.trailing)
       THEN [ok |-> TRUE, pos |-> j + 1, out |-> <<"[">> \o out \o <<"]">>]
       ELSE LET val == ParseValue(s, j, syntax)
                e == SkipSpace(s, val.pos)
                elements == out \o (IF out = <<>> THEN <<>> ELSE <<",">>) \o val.out
            IN IF ~val.ok \/ e > Len(s) THEN NoParse
               ELSE IF s[e] = ","
               THEN ParseElements(s, e + 1, syntax, elements, TRUE)
               ELSE IF s[e] = "]"
               THEN [ok |-> TRUE, pos |-> e + 1,
                     out |-> <<"[">> \o elements \o <<"]">>]
               ELSE NoParse

\* a whole text as one value: [ok, out]
ParseText(s, syntax) ==
    LET r == ParseValue(s, 1, syntax)
    IN IF r.ok /\ SkipSpace(s, r.pos) > Len(s)
       THEN [ok |-> TRUE, out |-> r.out]
       ELSE [ok |-> FALSE, out |-> <<>>]

\* json.loads, ast.literal_eval, demjson3.decode
JsonLoads(s) == ParseText(s, JsonSyntax)

LiteralEval(s) == ParseText(s, PythonSyntax)

DemjsonDecode(s) == ParseText(s, LenientSyntax)

\* the tiers of the parse: [by, out], by "none" when the last one has failed
\* or demjson3 is not installed
ParseTiers(s, demjson3_installed) ==
    IF JsonLoads(s).ok THEN [by |-> "json.loads", out |-> JsonLoads(s).out]
    ELSE IF LiteralEval(s).ok
    THEN [by |-> "ast.literal_eval", out |-> LiteralEval(s).out]
    ELSE IF demjson3_installed /\ DemjsonDecode(s).ok
    THEN [by |-> "demjson3", out |-> DemjsonDecode(s).out]
    ELSE [by |-> "none", out |-> <<>>]

-----------------------------------------------------------------------------
(* ai_cv_generator.py: create_tailored_json and                            *)
(* create_tailored_cv_with_prompt run on a whole document.  No entry holds *)
(* a 'description' key, so compress_cv_data leaves the entries alone.       *)

MaxDocEntries == 1

S_tailoring_method == <<"t", "a", "i", "l", "o", "r", "i", "n", "g", "_", "m", "e", "t", "h", "o", "d">>
S_prompt_only == <<"p", "r", "o", "m", "p", "t", "-", "o", "n", "l", "y">>
S_note == <<"n", "o", "t", "e">>
S_name == <<"n", "a", "m", "e">>
S_intro == <<"i", "n", "t", "r", "o">>
S_content == <<"c", "o", "n", "t", "e", "n", "t">>
S_Languages == <<"L", "a", "n", "g", "u", "a", "g", "e", "s">>
S_parse_error == <<"E", "r", "r", "o", "r", " ", "i", "n", " ", "p", "r", "o", "m", "p", "t", "-", "o", "n", "l", "y", " ", "C", "V", " ", "g", "e", "n", "e", "r", "a", "t", "i", "o", "n">>

\* cv_data['meta'] as create_tailored_cv_with_prompt sets it
PromptMeta(now) ==
    DictSet(DictSet(DictSet(EmptyDict, S_meta_last_updated, now),
                    S_generated_by, S_ai_cv_generator_py),
            S_tailoring_method, S_prompt_only)

\* a document with meta, contact information, a skill category and a text block
RichCvData ==
    [meta |-> DictSet(DictSet(EmptyDict, S_name, <<"J">>), S_meta_last_updated,
                      <<"2", "0", "2", "0", "-", "0", "1", "-", "0", "1">>),
     contact_info |-> DictSet(EmptyDict, S_email,
                              [value |-> <<"j", "@", "x">>, icon |-> <<"e">>]),
     skills |-> <<[category |-> S_Languages,
                   entries |-> <<[name |-> <<"R">>, level |-> <<"5">>]>>,
                   tags |-> <<S_cv, S_resume>>]>>,
     text_blocks |-> <<[id |-> S_intro, content |-> <<"h", "i">>,
                        tags |-> <<S_cv, S_resume>>]>>]

CvDocuments == {NoCvData, RichCvData}

\* texts the service can return
\* strict JSON: {"a":"b"}
T_valid == <<"{", DQ, "a", DQ, ":", DQ, "b", DQ, "}">>

\* strict JSON whose string holds a comma before a brace: {"a":",}"}
T_comma_in_string == <<"{", DQ, "a", DQ, ":", DQ, ",", "}", DQ, "}">>

\* strict JSON whose string holds a word and a colon after a comma: {"a":"x, y: z"}
T_colon_in_string == <<"{", DQ, "a", DQ, ":", DQ, "x", ",", " ", "y", ":", " ", "z", DQ, "}">>

\* single-quoted strings: {'a':'b'}
T_single_quotes == <<"{", SQ, "a", SQ, ":", SQ, "b", SQ, "}">>

\* a trailing comma: {"a":"b",}
T_trailing_comma == <<"{", DQ, "a", DQ, ":", DQ, "b", DQ, ",", "}">>

\* a key without quotes: {a:"b"}
T_unquoted_key == <<"{", "a", ":", DQ, "b", DQ, "}">>

\* an object inside a sentence: So {"a":"b"} ok
T_prose == <<"S", "o", " ", "{", DQ, "a", DQ, ":", DQ, "b", DQ, "}", " ", "o", "k">>

\* strict JSON that is no object: ["a"]
T_array == <<"[", DQ, "a", DQ, "]">>

\* no document at all: x
T_garbage == <<"x">>

ResponseTexts ==
    {T_valid, T_comma_in_string, T_colon_in_string,
     T_single_quotes, T_trailing_comma, T_unquoted_key,
     T_prose, T_array, T_garbage}

\* what the one call can give: it raises, or it returns one of the texts
PromptResponses ==
    {[raises |-> TRUE, text |-> <<>>]}
    \cup {[raises |-> FALSE, text |-> t] : t \in ResponseTexts}

\* the parse of each text for each service, with and without demjson3
ParseOf ==
    [service \in {S_openai, S_claude}, text \in ResponseTexts,
     demjson3_installed \in BOOLEAN |->
        ParseTiers(TailoredCvJson(service, text), demjson3_installed)]

\* every entry of the document instead of the first three
MinimalEntries_All(es) == es

\* cv_data.get("entries", [])[:3]
MinimalEntries(es) == Take(es, 3)

\* minimal_cv but for its entries; its meta is the object cv_data holds
MinimalCv(data) ==
    [meta |-> DictSet(data.meta, S_note, S_parse_error),
     contact_info |-> data.contact_info,
     skills |-> data.skills,
     text_blocks |-> data.text_blocks]

InitTailorDoc ==
    /\ pc \in {"scoring", "prompting"}
    /\ ConvertIdle
    /\ ContactIdle
    /\ AsideIdle
    /\ cv_entries \in
          UNION {{[i \in 1..k |-> TailorEntry(i, sections[i])] :
                    sections \in [1..k -> {S_education, S_software, <<>>}]} :
                 k \in 0..MaxDocEntries}
    /\ tailor_args \in TailorArgsSet
    /\ idx = 0
    /\ responses = <<>>
    /\ scored_entries = <<>>
    /\ tailored_entries = <<>>
    /\ cv_data \in CvDocuments
    /\ cv_data_in = cv_data
    /\ tailored_data = NoCvData
    /\ IF pc = "prompting" THEN raw_response \in PromptResponses
       ELSE raw_response = NoResponse
    /\ parsed_by = ""
    /\ tailored_cv = <<>>

\* create_tailored_cv_with_prompt: the document parsed from the answer is
\* written, or minimal_cv when the call raises or no parser accepts the text
CreateTailoredCvWithPrompt ==
    /\ pc = "prompting"
    /\ \E now \in Dates, demjson3_installed \in BOOLEAN :
          LET updated == [cv_data EXCEPT !.meta = PromptMeta(now)]
              parse == IF raw_response.raises THEN [by |-> "none", out |-> <<>>]
                       ELSE ParseOf[tailor_args.service, raw_response.text,
                                    demjson3_installed]
          IN /\ parsed_by' = parse.by
             /\ tailored_cv' = parse.out
             /\ \/ /\ parse.by # "none"
                   /\ cv_data' = updated
                   /\ UNCHANGED <<tailored_data, tailored_entries>>
                   /\ pc' = "prompted"
                \/ /\ parse.by = "none"
                   /\ cv_data' = [updated EXCEPT !.meta = MinimalCv(updated).meta]
                   /\ tailored_data' = MinimalCv(updated)
                   /\ tailored_entries' = MinimalEntries(cv_entries)
                   /\ pc' = "fallback"
    /\ UNCHANGED <<convertVars, contactVars, cv_entries, tailor_args, idx,
                   responses, scored_entries, exported_csv, asideVars, cv_data_in,
                   raw_response>>

NextTailorDoc == ScoreEntry \/ WriteTailoredJson \/ CreateTailoredCvWithPrompt

SpecTailorDoc == InitTailorDoc /\ [][NextTailorDoc]_vars

-----------------------------------------------------------------------------
(* create_tailored_cv_with_prompt alone, on documents of up to             *)
(* MaxPromptEntries entries.                                               *)

MaxPromptEntries == 4

PromptDocuments ==
    {[i \in 1..k |-> TailorEntry(i, S_education)] : k \in 0..MaxPromptEntries}

InitPrompt ==
    /\ pc = "prompting"
    /\ ConvertIdle
    /\ ContactIdle
    /\ AsideIdle
    /\ cv_entries \in PromptDocuments
    /\ tailor_args \in TailorArgsSet
    /\ idx = 0
    /\ responses = <<>>
    /\ scored_entries = <<>>
    /\ tailored_entries = <<>>
    /\ cv_data \in CvDocuments
    /\ cv_data_in = cv_data
    /\ tailored_data = NoCvData
    /\ raw_response \in PromptResponses
    /\ parsed_by = ""
    /\ tailored_cv = <<>>

NextPrompt == CreateTailoredCvWithPrompt

SpecPrompt == InitPrompt /\ [][NextPrompt]_vars

\* the function, once called, runs to its end
SpecPromptFair == SpecPrompt /\ WF_vars(CreateTailoredCvWithPrompt)

-----------------------------------------------------------------------------
(* json_to_csv_converter.py: write_text_blocks_csv.                        *)

S_professional_summary == <<"p", "r", "o", "f", "e", "s", "s", "i", "o", "n", "a", "l", "_", "s", "u", "m", "m", "a", "r", "y">>
S_No_content == <<"(", "N", "o", " ", "c", "o", "n", "t", "e", "n", "t", " ", "p", "r", "o", "v", "i", "d", "e", "d", ")">>

essential_ids == <<S_intro, S_professional_summary>>

\* essential_blocks
EssentialBlocks(blocks) == SelectSeq(blocks, LAMBDA b : In(b.id, essential_ids))

\* type_filtered_blocks
TypeFilteredBlocks(blocks, doc_type) ==
    SelectSeq(blocks, LAMBDA b : ~In(b.id, essential_ids) /\ In(doc_type, b.tags))

\* the last block of each id kept instead of the first
RECURSIVE CombinedBlocks_KeepLast(_)
CombinedBlocks_KeepLast(list) ==
    IF Len(list) = 0 THEN <<>>
    ELSE LET rest == CombinedBlocks_KeepLast(Tail(list))
         IN IF list[1].id # <<>> /\ \A j \in 1..Len(rest) : rest[j].id # list[1].id
            THEN <<list[1]>> \o rest ELSE rest

\* list(combined_blocks.values()): the first block of each non-empty id, in
\* the order the ids are first met
RECURSIVE CombinedBlocks(_)
CombinedBlocks(list) ==
    IF Len(list) = 0 THEN <<>>
    ELSE LET front == CombinedBlocks(SubSeq(list, 1, Len(list) - 1))
             block == list[Len(list)]
         IN IF block.id # <<>> /\ \A j \in 1..Len(front) : front[j].id # block.id
            THEN Append(front, block) ELSE front

\* the non-essential blocks put before the essential ones
FilteredBlocks_EssentialLast(blocks, doc_type) ==
    CombinedBlocks(TypeFilteredBlocks(blocks, doc_type) \o EssentialBlocks(blocks))

\* filtered_blocks
FilteredBlocks(blocks, doc_type) ==
    CombinedBlocks(EssentialBlocks(blocks) \o TypeFilteredBlocks(blocks, doc_type))

\* the row written for a block: empty content is replaced
TextBlockRow(block) ==
    <<block.id, IF block.content = <<>> THEN S_No_content ELSE block.content>>

\* the rows of text_blocks.csv: the header row, then a row per block with a loc
TextBlocksCsv(blocks, doc_type) ==
    LET filtered_blocks ==
            SelectSeq(FilteredBlocks(blocks, doc_type), LAMBDA b : b.id # <<>>)
    IN <<<<S_loc, S_text>>>>
       \o [i \in 1..Len(filtered_blocks) |-> TextBlockRow(filtered_blocks[i])]

MaxBlocks == 3

\* block number i of a document
BlockPool(i) ==
    [id : {S_intro, S_professional_summary, <<"a">>, <<"b">>, <<>>},
     content : {<<"c">> \o IntToStr(i), <<>>},
     tags : {<<S_cv>>, <<S_cv, S_resume>>}]

TextBlockDocuments ==
    UNION {{d \in [1..k -> UNION {BlockPool(i) : i \in 1..k}] :
              \A i \in 1..k : d[i] \in BlockPool(i)} :
           k \in 0..MaxBlocks}

InitText ==
    /\ pc = "blocks"
    /\ ConvertIdle
    /\ ContactIdle
    /\ TailorIdle
    /\ DocIdle
    /\ exported_csv = <<>>
    /\ text_blocks \in TextBlockDocuments
    /\ text_blocks_csv = <<>>
    /\ skills = <<>>
    /\ aside_sections_csv = <<>>
    /\ aside_entries_csv = <<>>
    /\ json_text_blocks = <<>>
    /\ json_skills = <<>>

\* write_text_blocks_csv(data, output_dir, doc_type)
WriteTextBlocksCsv ==
    /\ pc = "blocks"
    /\ \E doc_type \in {S_cv, S_resume} :
          /\ args' = [args EXCEPT !.doc_type = doc_type]
          /\ text_blocks_csv' = TextBlocksCsv(text_blocks, doc_type)
    /\ pc' = "blocks_written"
    /\ UNCHANGED <<entries, filtered_entries, first_selection, entries_csv,
                   json_entries, contactVars, tailorVars, exported_csv, text_blocks,
                   skills, aside_sections_csv, aside_entries_csv, json_text_blocks,
                   json_skills, docVars>>

NextText == WriteTextBlocksCsv \/ ConvertCsvToJson

SpecText == InitText /\ [][NextText]_vars

-----------------------------------------------------------------------------
(* The skills export: write_aside_entries_csv.                             *)

S_is_code == <<"i", "s", "_", "c", "o", "d", "e">>
S_sort_order == <<"s", "o", "r", "t", "_", "o", "r", "d", "e", "r">>

code_keywords ==
    << <<"s", "o", "f", "t", "w", "a", "r", "e">>,
       <<"c", "o", "d", "i", "n", "g">>,
       <<"p", "r", "o", "g", "r", "a", "m", "m", "i", "n", "g">>,
       <<"d", "e", "v", "e", "l", "o", "p", "m", "e", "n", "t">>,
       <<"p", "a", "c", "k", "a", "g", "e">>,
       <<"s", "c", "r", "i", "p", "t">> >>

\* sub in s, for two str
Substring(sub, s) ==
    \E i \in 1..(Len(s) - Len(sub) + 1) : SubSeq(s, i, i + Len(sub) - 1) = sub

\* category.lower().replace(' ', '_').replace('/', '_')
CategorySlug(category) ==
    Replace(Replace(Lower(category), <<" ">>, <<"_">>), <<"/">>, <<"_">>)

IsCode(category) ==
    IF \E k \in 1..Len(code_keywords) : Substring(code_keywords[k], Lower(category))
    THEN S_TRUE ELSE S_FALSE

\* the row of aside_sections.csv of the i-th category
SectionRow(category_data, i) ==
    <<CategorySlug(category_data.category), category_data.category,
      IsCode(category_data.category), IntToStr(i)>>

\* the data rows of aside_sections.csv: one for each category
AsideSectionRows(skills_data) ==
    [i \in 1..Len(skills_data) |-> SectionRow(skills_data[i], i)]

\* the data rows of aside_entries.csv of one category
CategoryEntryRows(category_data) ==
    [i \in 1..Len(category_data.entries) |->
        <<CategorySlug(category_data.category), category_data.entries[i].name,
          IntToStr(i)>>]

RECURSIVE AsideEntryRows(_)
AsideEntryRows(skills_data) ==
    IF skills_data = <<>> THEN <<>>
    ELSE CategoryEntryRows(Head(skills_data)) \o AsideEntryRows(Tail(skills_data))

AsideSectionsCsv(skills_data) ==
    <<<<S_category, S_display_name, S_is_code, S_sort_order>>>>
        \o AsideSectionRows(skills_data)

AsideEntriesCsv(skills_data) ==
    <<<<S_category, S_entry, S_sort_order>>>> \o AsideEntryRows(skills_data)

MaxCategories == 2

S_R_packages == <<"R", " ", "p", "a", "c", "k", "a", "g", "e", "s">>
S_Data_Stats == <<"D", "a", "t", "a", "/", "S", "t", "a", "t", "s">>

S_R_slash_packages == <<"R", "/", "p", "a", "c", "k", "a", "g", "e", "s">>

CategoryNames == {S_Languages, S_R_packages, S_R_slash_packages, S_Data_Stats, <<>>}

SkillEntries ==
    {<<>>,
     <<[name |-> <<"R">>, level |-> <<>>]>>,
     <<[name |-> <<"R">>, level |-> <<>>], [name |-> <<"C">>, level |-> <<>>]>>}

SkillCategories ==
    [category : CategoryNames, entries : SkillEntries, tags : {<<S_cv, S_resume>>}]

SkillsDocuments ==
    UNION {[1..k -> SkillCategories] : k \in 0..MaxCategories}

InitAside ==
    /\ pc = "skills"
    /\ ConvertIdle
    /\ ContactIdle
    /\ TailorIdle
    /\ DocIdle
    /\ exported_csv = <<>>
    /\ text_blocks = <<>>
    /\ text_blocks_csv = <<>>
    /\ skills \in SkillsDocuments
    /\ aside_sections_csv = <<>>
    /\ aside_entries_csv = <<>>
    /\ json_text_blocks = <<>>
    /\ json_skills = <<>>

\* write_aside_entries_csv(data, output_dir, doc_type): no file is written
\* for a document without skills
WriteAsideEntriesCsv ==
    /\ pc = "skills"
    /\ \E doc_type \in {S_cv, S_resume} :
          args' = [args EXCEPT !.doc_type = doc_type]
    /\ IF skills = <<>>
       THEN UNCHANGED <<aside_sections_csv, aside_entries_csv>>
       ELSE /\ aside_sections_csv' = AsideSectionsCsv(skills)
            /\ aside_entries_csv' = AsideEntriesCsv(skills)
    /\ pc' = "aside_written"
    /\ UNCHANGED <<entries, filtered_entries, first_selection, entries_csv,
                   json_entries, contactVars, tailorVars, exported_csv, text_blocks,
                   text_blocks_csv, skills, json_text_blocks, json_skills, docVars>>

NextAside == WriteAsideEntriesCsv \/ ConvertCsvToJson

SpecAside == InitAside /\ [][NextAside]_vars

-----------------------------------------------------------------------------
(* Properties of the selection (write_entries_csv).                        *)

\* the export has run on the document in entries
Exported == pc = "written"

\* the numeric value an end date is ranked by: int(end) for digits, else 0
EndRank(end) == IF IsDigit(end) THEN StrToInt(end) ELSE 0

\* the bijections of 1..n
Bijections(n) == {p \in [1..n -> 1..n] : \A i, j \in 1..n : p[i] = p[j] => i = j}

\* out is the stable sort of inp under the strict order MustPrecede: a
\* rearrangement without inversion in which ties keep their input order
IsStableSortOf(out, inp, MustPrecede(_, _)) ==
    /\ Len(out) = Len(inp)
    /\ \E p \in Bijections(Len(inp)) :
          /\ \A i \in 1..Len(out) : out[i] = inp[p[i]]
          /\ \A i, j \in 1..Len(out) :
                i < j => /\ ~MustPrecede(out[j], out[i])
                         /\ (~MustPrecede(out[i], out[j]) => p[i] < p[j])

\* C1: no entry whose tags do not contain docType is among the selected
\* entries, for any filters and logic.
C1_DocTypeMandatory ==
    Exported =>
        /\ \A i \in 1..Len(filtered_entries) :
              In(args.doc_type, filtered_entries[i].tags)
        /\ \A j \in 1..Len(entries) :
              ~In(args.doc_type, entries[j].tags)
                  => entries[j] \notin ToSet(filtered_entries)

C1_Witness ==
    /\ Exported
    /\ args.company_filters # <<>>
    /\ Len(filtered_entries) > 0
    /\ \E j \in 1..Len(entries) : ~In(args.doc_type, entries[j].tags)

\* what C2 requires of a selected entry e under the arguments a
C2_Condition(e, a) ==
    /\ a.filter_logic = S_and =>
          /\ \A c \in ToSet(a.company_filters) : c \in ToSet(e.companies)
          /\ \A t \in ToSet(a.tag_filters) : t \in ToSet(e.tags)
    /\ a.filter_logic = S_or =>
          /\ a.company_filters # <<>> =>
                \E c \in ToSet(a.company_filters) : c \in ToSet(e.companies)
          /\ a.tag_filters # <<>> =>
                \E t \in ToSet(a.tag_filters) : t \in ToSet(e.tags)

\* C2: an entry tagged with docType is selected exactly when, under 'and', every
\* member of both filter lists matches it and, under 'or', at least one member
\* of each filter list that is present matches it.
C2_AndOrFilters ==
    Exported =>
        \A j \in 1..Len(entries) :
            In(args.doc_type, entries[j].tags) =>
                (entries[j] \in ToSet(filtered_entries) <=> C2_Condition(entries[j], args))

\* company filters {A, B}: an entry with companies {A} is left out under 'and'
\* while another entry is selected
C2_Witness ==
    /\ Exported
    /\ args.filter_logic = S_and
    /\ args.company_filters = <<CompanyA, CompanyB>>
    /\ Len(filtered_entries) > 0
    /\ \E j \in 1..Len(entries) :
          /\ In(args.doc_type, entries[j].tags)
          /\ entries[j].companies = <<CompanyA>>
          /\ entries[j] \notin ToSet(filtered_entries)

\* the order C3 states: importance descending, Current first, numeric ends
\* descending, every numeric end before every other end
C3_ClaimedPrecedes(x, y) ==
    \/ x.importance > y.importance
    \/ /\ x.importance = y.importance
       /\ x.end = S_Current
       /\ y.end # S_Current
    \/ /\ x.importance = y.importance
       /\ x.end # S_Current
       /\ y.end # S_Current
       /\ IsDigit(x.end)
       /\ \/ ~IsDigit(y.end)
          \/ IsDigit(y.end) /\ StrToInt(x.end) > StrToInt(y.end)

\* C3 as stated: the output is the stable sort of the filtered entries in which
\* a non-numeric, non-Current end comes after every numeric end.
C3_Original ==
    Exported =>
        IsStableSortOf(filtered_entries, FilterEntries(entries, args), C3_ClaimedPrecedes)

\* the order the code sorts by: a non-numeric end ranks as the number 0
C3_Precedes(x, y) ==
    \/ x.importance > y.importance
    \/ /\ x.importance = y.importance
       /\ x.end = S_Current
       /\ y.end # S_Current
    \/ /\ x.importance = y.importance
       /\ x.end # S_Current
       /\ y.end # S_Current
       /\ EndRank(x.end) > EndRank(y.end)

\* C3 (amended): the output is the stable sort of the filtered entries by
\* importance descending, then Current first, then end descending where a
\* non-numeric end counts as 0: after every positive numeric end, and tied with
\* a numeric end of value 0.  Ties keep their input order.
C3_StableSortByKey ==
    Exported =>
        IsStableSortOf(filtered_entries, FilterEntries(entries, args), C3_Precedes)

\* a non-numeric end is written before a numeric end of value 0 of the same
\* importance
C3_Witness ==
    /\ Exported
    /\ Len(filtered_entries) = 2
    /\ filtered_entries[1].importance = filtered_entries[2].importance
    /\ filtered_entries[1].end = <<>>
    /\ filtered_entries[2].end = <<"0">>

\* C4: select applied to the document made of its own output, with the same
\* arguments, returns the same sequence.
C4_Idempotent == pc = "rewritten" => filtered_entries = first_selection

C4_Witness ==
    /\ pc = "rewritten"
    /\ Len(first_selection) = 2
    /\ first_selection[1] # first_selection[2]
    /\ SortKey(first_selection[1]) = SortKey(first_selection[2])

\* the entries rearranged by the bijection p
Permuted(es, p) == [i \in 1..Len(es) |-> es[p[i]]]

\* C5 as stated: every rearrangement of the document's entries gives the same
\* selected sequence.
C5_Original ==
    Exported =>
        \A p \in Bijections(Len(entries)) :
            Select(Permuted(entries, p), args) = filtered_entries

\* what the order of the output is decided by
C5_Key(x) == <<x.importance, x.end = S_Current, EndRank(x.end)>>

C5_NoTies(es) ==
    \A i, j \in 1..Len(es) : i # j => C5_Key(es[i]) # C5_Key(es[j])

\* C5 (amended): every rearrangement of the document's entries gives a
\* selection with the same entries and the same sequence of sort keys; it is
\* the same sequence when no two selected entries are equal on all three keys.
C5_OrderUpToTies ==
    Exported =>
        \A p \in Bijections(Len(entries)) :
            LET other == Select(Permuted(entries, p), args)
            IN /\ Len(other) = Len(filtered_entries)
               /\ \E q \in Bijections(Len(other)) :
                     \A i \in 1..Len(other) : other[i] = filtered_entries[q[i]]
               /\ \A i \in 1..Len(other) :
                     C5_Key(other[i]) = C5_Key(filtered_entries[i])
               /\ C5_NoTies(filtered_entries) => other = filtered_entries

\* two different selected entries equal on all three keys
C5_Witness ==
    /\ Exported
    /\ Len(filtered_entries) = 2
    /\ filtered_entries[1] # filtered_entries[2]
    /\ C5_Key(filtered_entries[1]) = C5_Key(filtered_entries[2])

-----------------------------------------------------------------------------
(* Properties of the entries round trip (export for cv, then import).      *)

\* the entries C6 speaks of: tagged cv, no tag beyond cv, resume and the
\* section, no empty description
C6_Covered(es) ==
    \A i \in 1..Len(es) :
        /\ In(S_cv, es[i].tags)
        /\ ToSet(es[i].tags) \subseteq {S_cv, S_resume, es[i].section}
        /\ \A k \in 1..Len(es[i].descriptions) : es[i].descriptions[k] # <<>>

C6_SameEntry(x, y) ==
    /\ x.section = y.section
    /\ x.title = y.title
    /\ x.loc = y.loc
    /\ x.institution = y.institution
    /\ x.start = y.start
    /\ x.end = y.end
    /\ x.descriptions = y.descriptions
    /\ ToSet(x.companies) = ToSet(y.companies)
    /\ ToSet(x.tags) = ToSet(y.tags)
    /\ x.importance = y.importance

\* C6: for a covered document, export for cv then import gives the entries of
\* the document: same order, fields, descriptions, company set, tag set and
\* importance.
C6_RoundTrip ==
    ( /\ pc = "parsed"
      /\ args.doc_type = S_cv
      /\ args.company_filters = <<>>
      /\ args.tag_filters = <<>>
      /\ C6_Covered(entries) )
    => /\ Len(json_entries) = Len(entries)
       /\ \A i \in 1..Len(entries) : C6_SameEntry(json_entries[i], entries[i])

-----------------------------------------------------------------------------
(* Properties of the contact import (parse_contact_info_csv).              *)

\* the data rows of contact_info.csv
ContactRows == IF contact_csv = <<>> THEN <<>> ELSE Tail(contact_csv)

\* what a row asks to be stored
ContactItem(row) == [value |-> row[3], icon |-> row[2]]

\* C7: two contact rows with the same loc and different non-empty icons are
\* imported under the keys loc_icon of each row, each key holding its own
\* row's value and icon
C7_KeysLocIcon ==
    (pc = "parsed" /\ Len(ContactRows) = 2)
    => LET r1 == ContactRows[1]
           r2 == ContactRows[2]
           k1 == r1[1] \o <<"_">> \o r1[2]
           k2 == r2[1] \o <<"_">> \o r2[2]
       IN (/\ r1[1] = r2[1]
           /\ r1[2] # <<>> /\ r2[2] # <<>> /\ r1[2] # r2[2]
           /\ r1[3] # <<>> /\ r2[3] # <<>>)
          => /\ DOMAIN contact_info.val = {k1, k2}
             /\ contact_info.val[k1] = ContactItem(r1)
             /\ contact_info.val[k2] = ContactItem(r2)

\* C8: when every contact row has a loc and a contact and no two rows share
\* the pair (loc, icon), the mapping has one key per row and each row's value
\* and icon are stored under the key the row was added with
C8_NoRowLost ==
    (/\ pc = "parsed"
     /\ \A i \in 1..Len(ContactRows) :
           ContactRows[i][1] # <<>> /\ ContactRows[i][3] # <<>>
     /\ \A i, j \in 1..Len(ContactRows) :
           i < j => <<ContactRows[i][1], ContactRows[i][2]>>
                    # <<ContactRows[j][1], ContactRows[j][2]>>)
    => /\ Len(contact_info.keys) = Len(ContactRows)
       /\ Len(contact_log) = Len(ContactRows)
       /\ \A i \in 1..Len(ContactRows) :
             /\ contact_log[i] \in DOMAIN contact_info.val
             /\ contact_info.val[contact_log[i]] = ContactItem(ContactRows[i])

-----------------------------------------------------------------------------
(* Properties of the tailoring (create_tailored_json).                     *)

\* the cap of a section: the one listed for it, 2 for a section not listed
C9_Cap(section) ==
    LET caps == MaxEntriesPerSection(tailor_args.max_entries_per_section)
    IN IF section \in ToSet(caps.keys) THEN caps.val[section] ELSE 2

\* the scored entries of the same section that come before entry i by score,
\* an equal score counting for the entry scored earlier
C9_Ahead(i) ==
    {j \in 1..Len(scored_entries) :
        /\ SectionOf(scored_entries[j]) = SectionOf(scored_entries[i])
        /\ \/ scored_entries[j].relevance_score > scored_entries[i].relevance_score
           \/ /\ scored_entries[j].relevance_score = scored_entries[i].relevance_score
              /\ j < i}

\* entry i is among the cap highest-scoring of its section and reaches the floor
C9_Kept(i) ==
    /\ Cardinality(C9_Ahead(i)) < C9_Cap(SectionOf(scored_entries[i]))
    /\ scored_entries[i].relevance_score >= 3

\* C9: the tailored output holds exactly the entries that are among the cap
\* highest-scoring of their section (cap 2 for a section not listed) and score
\* at least 3: at most cap entries per section, none below the floor
C9_CapAndFloor ==
    pc = "done"
    => /\ \A i \in 1..Len(scored_entries) :
             In(scored_entries[i], tailored_entries) <=> C9_Kept(i)
       /\ Len(tailored_entries)
             = Cardinality({i \in 1..Len(scored_entries) : C9_Kept(i)})
       /\ \A k \in 1..Len(tailored_entries) :
             /\ tailored_entries[k].relevance_score >= 3
             /\ Cardinality({m \in 1..Len(tailored_entries) :
                                SectionOf(tailored_entries[m])
                                  = SectionOf(tailored_entries[k])})
                  <= C9_Cap(SectionOf(tailored_entries[k]))

\* a run in which the cap leaves out an entry that reaches the floor, the floor
\* leaves out an entry within the cap of a section that is not listed, and an
\* entry is kept
C9_Witness ==
    /\ pc = "done"
    /\ tailor_args.max_entries_per_section.type = "dict"
    /\ \E i, j, k \in 1..Len(scored_entries) :
          /\ scored_entries[i].relevance_score >= 3
          /\ Cardinality(C9_Ahead(i)) >= C9_Cap(SectionOf(scored_entries[i]))
          /\ ~In(scored_entries[i], tailored_entries)
          /\ scored_entries[j].relevance_score < 3
          /\ SectionOf(scored_entries[j]) # S_education
          /\ Cardinality(C9_Ahead(j)) < 2
          /\ ~In(scored_entries[j], tailored_entries)
          /\ In(scored_entries[k], tailored_entries)

\* C10: the scorer is called once for every entry in order and its failure on
\* some entries never ends the run: the loop goes on to the next entry, every
\* entry gets its own score, and the selection is made and written
C10_FailureIsolation ==
    /\ pc # "aborted"
    /\ Len(scored_entries) = idx
    /\ \A i \in 1..Len(scored_entries) :
          scored_entries[i].relevance_score
            = ScoreEntryRelevance(responses[i], tailor_args.service).score
    /\ pc = "done" => Len(scored_entries) = Len(cv_entries)

\* C11: whenever the scoring call of an entry raises or returns text that
\* cannot be parsed, with either service, the entry's relevance score is 0 and
\* its reasoning is the failure message
C11_FailureScoresZero ==
    \A i \in 1..Len(scored_entries) :
        responses[i].kind \in {"raise", "unparseable"}
        => /\ scored_entries[i].relevance_score = 0
           /\ scored_entries[i].relevance_reasoning = PyStr(S_Error)

-----------------------------------------------------------------------------
(* Properties of import followed by export (entries table).                *)

\* the table in entries_csv has an explanation row before its header row
HasExplanationRow == entries_csv[1][1] # S_section

\* the data rows of the table in entries_csv
InputRows == IF HasExplanationRow THEN Tail(Tail(entries_csv)) ELSE Tail(entries_csv)

\* the header row of the table in entries_csv
InputHeader == IF HasExplanationRow THEN entries_csv[2] ELSE entries_csv[1]

\* the cell of a data row in the column named name
Cell(row, name) == row[CHOOSE c \in 1..Len(InputHeader) : InputHeader[c] = name]

\* the titles of the data rows of a written entries table
WrittenTitles(table) == [i \in 1..(Len(table) - 2) |-> table[i + 2][2]]

\* C12: importing an entries table and exporting the document for resume with
\* no filters writes one row for each input row whose in_resume cell is
\* truthy, and no other row, in the order of the table
C12_ResumeRows ==
    (pc = "reexported" /\ args.doc_type = S_resume)
    => LET kept == SelectSeq(InputRows,
                             LAMBDA row : Upper(Cell(row, S_in_resume)) \in Truthy)
       IN WrittenTitles(exported_csv) = [i \in 1..Len(kept) |-> Cell(kept[i], S_title)]


\* the description cells of a data row, in the order of their columns
DescriptionCellsOf(row) ==
    LET cols == SelectSeq([c \in 1..Len(InputHeader) |-> c],
                          LAMBDA c : StartsWith(InputHeader[c], S_description_))
    IN [j \in 1..Len(cols) |-> row[cols[j]]]

\* C20: on import an entry's descriptions are the non-empty description_k
\* cells of its row in ascending numeric order of k, for any number of
\* description columns (ten and more included)
C20_DescriptionsAscending ==
    (pc = "parsed" /\ HasExplanationRow)
    => /\ Len(json_entries) = Len(InputRows)
       /\ \A i \in 1..Len(InputRows) :
             json_entries[i].descriptions
                = SelectSeq(DescriptionCellsOf(InputRows[i]), LAMBDA c : c # <<>>)


-----------------------------------------------------------------------------
(* Properties of the tailored document.                                    *)

\* C13: the tailoring never changes its input document: after
\* create_tailored_json and after create_tailored_cv_with_prompt, on success
\* and on fallback, every field of the input equals its value before the call
C13_InputUnchanged == cv_data = cv_data_in

\* C14: the document written by the per-entry tailoring has the contact
\* information, the skills and the text blocks of the input document, for any
\* scores and caps
C14_RestRetained ==
    pc = "done"
    => /\ tailored_data.contact_info = cv_data_in.contact_info
       /\ tailored_data.skills = cv_data_in.skills
       /\ tailored_data.text_blocks = cv_data_in.text_blocks

\* a document with contact information, skills and text blocks is tailored and
\* its entry is left out
C14_Witness ==
    /\ pc = "done"
    /\ cv_data_in.contact_info # EmptyDict
    /\ cv_data_in.skills # <<>>
    /\ cv_data_in.text_blocks # <<>>
    /\ Len(scored_entries) > 0
    /\ tailored_entries = <<>>

\* C15: the document written by the per-entry tailoring keeps the input's
\* meta but for the date: every meta key of the input other than last_updated
\* is in the written meta with the value it had
C15_MetaRetained ==
    pc = "done"
    => \A k \in DOMAIN cv_data_in.meta.val \ {S_meta_last_updated} :
          /\ k \in DOMAIN tailored_data.meta.val
          /\ tailored_data.meta.val[k] = cv_data_in.meta.val[k]


-----------------------------------------------------------------------------
(* Properties of the text-block export (write_text_blocks_csv).            *)

\* the data rows of text_blocks.csv
TextRows == Tail(text_blocks_csv)

\* the ids of the data rows of text_blocks.csv
TextRowIds == [i \in 1..Len(TextRows) |-> TextRows[i][1]]

IsEssential(id) == id \in {S_intro, S_professional_summary}

\* no two blocks of the document share an id
UniqueIds(blocks) ==
    \A i, j \in 1..Len(blocks) : blocks[i].id = blocks[j].id => i = j

\* the essential rows come before every other row
EssentialFirst ==
    \A i, j \in 1..Len(TextRowIds) :
        (IsEssential(TextRowIds[j]) /\ ~IsEssential(TextRowIds[i])) => j < i

\* C16 as stated, for a document whose ids are unique: every essential block
\* is written, before every other block, and a non-essential block is written
\* exactly when its tags contain docType
C16_Original ==
    (pc = "blocks_written" /\ UniqueIds(text_blocks))
    => /\ \A i \in 1..Len(text_blocks) :
             IF IsEssential(text_blocks[i].id)
             THEN In(text_blocks[i].id, TextRowIds)
             ELSE In(text_blocks[i].id, TextRowIds)
                     <=> In(args.doc_type, text_blocks[i].tags)
       /\ EssentialFirst

\* the blocks the export includes: the essential ones, and those with a
\* non-empty id whose tags contain docType
Included(block) ==
    \/ IsEssential(block.id)
    \/ block.id # <<>> /\ In(args.doc_type, block.tags)

\* C16 (amended): every essential id of the document has a row, whatever
\* docType and the tags are, before every non-essential row; the non-essential
\* ids written are exactly the non-empty ids of the non-essential blocks whose
\* tags contain docType, in the order of the document
C16_EssentialAndTagged ==
    pc = "blocks_written"
    => /\ \A i \in 1..Len(text_blocks) :
             In(text_blocks[i].id, TextRowIds) <=>
                \E j \in 1..Len(text_blocks) :
                    text_blocks[j].id = text_blocks[i].id /\ Included(text_blocks[j])
       /\ \A r \in 1..Len(TextRowIds) :
             \E i \in 1..Len(text_blocks) : text_blocks[i].id = TextRowIds[r]
       /\ EssentialFirst
       /\ \A r, q \in 1..Len(TextRowIds) :
             (r < q /\ IsEssential(TextRowIds[r]) = IsEssential(TextRowIds[q]))
             => \E i, j \in 1..Len(text_blocks) :
                   /\ i < j
                   /\ text_blocks[i].id = TextRowIds[r] /\ Included(text_blocks[i])
                   /\ text_blocks[j].id = TextRowIds[q] /\ Included(text_blocks[j])
                   /\ \A h \in 1..(j - 1) :
                         ~(text_blocks[h].id = TextRowIds[q] /\ Included(text_blocks[h]))

\* an essential block whose tags lack docType is written, before a tagged
\* block that precedes it in the document, and a block without id is left out
C16_Witness ==
    /\ pc = "blocks_written"
    /\ UniqueIds(text_blocks)
    /\ Len(text_blocks) = 3
    /\ text_blocks[1].id = <<"a">> /\ In(args.doc_type, text_blocks[1].tags)
    /\ text_blocks[2].id = S_intro /\ ~In(args.doc_type, text_blocks[2].tags)
    /\ text_blocks[3].id = <<>> /\ In(args.doc_type, text_blocks[3].tags)
    /\ TextRowIds = <<S_intro, <<"a">>>>

\* C17 as stated: no two rows share an id, and an id shared by several blocks
\* has exactly one row, with the content of its first block in the document
C17_Original ==
    pc = "blocks_written"
    => /\ \A r, q \in 1..Len(TextRowIds) : TextRowIds[r] = TextRowIds[q] => r = q
       /\ \A i, j \in 1..Len(text_blocks) :
             (i < j /\ text_blocks[i].id = text_blocks[j].id
                    /\ \A h \in 1..(i - 1) : text_blocks[h].id # text_blocks[i].id)
             => \E r \in 1..Len(TextRows) :
                   TextRows[r] = <<text_blocks[i].id, text_blocks[i].content>>

\* C17 (amended): no two rows share an id; an id has a row exactly when one of
\* its blocks is included, and the row carries the content of the first
\* included block of that id, "(No content provided)" when that is empty
C17_OneRowPerId ==
    pc = "blocks_written"
    => /\ \A r, q \in 1..Len(TextRowIds) : TextRowIds[r] = TextRowIds[q] => r = q
       /\ \A i \in 1..Len(text_blocks) :
             (/\ Included(text_blocks[i])
              /\ \A h \in 1..(i - 1) :
                    ~(text_blocks[h].id = text_blocks[i].id /\ Included(text_blocks[h])))
             => \E r \in 1..Len(TextRows) :
                   TextRows[r] = <<text_blocks[i].id,
                                   IF text_blocks[i].content = <<>> THEN S_No_content
                                   ELSE text_blocks[i].content>>
       /\ \A r \in 1..Len(TextRows) :
             \E i \in 1..Len(text_blocks) :
                 text_blocks[i].id = TextRowIds[r] /\ Included(text_blocks[i])

\* two blocks share the id a, the first without docType in its tags: the one
\* row of a carries the content of the second; two blocks share the id intro
C17_Witness ==
    /\ pc = "blocks_written"
    /\ Len(text_blocks) = 3
    /\ text_blocks[1].id = <<"a">> /\ ~In(args.doc_type, text_blocks[1].tags)
    /\ text_blocks[2].id = <<"a">> /\ In(args.doc_type, text_blocks[2].tags)
    /\ text_blocks[2].content # <<>>
    /\ text_blocks[3].id = <<"a">> /\ In(args.doc_type, text_blocks[3].tags)
    /\ text_blocks[3].content # <<>>
    /\ TextRows = <<<<(<<"a">>), text_blocks[2].content>>>>


-----------------------------------------------------------------------------
(* Properties of the skills export (write_aside_entries_csv).              *)

\* C18: the exported sections table has a row for a category only if that
\* category has at least one entry
C18_EmptyCategoryOmitted ==
    pc = "aside_written"
    => \A i \in 1..Len(skills) :
          skills[i].entries = <<>>
          => ~\E r \in 2..Len(aside_sections_csv) :
                 /\ aside_sections_csv[r][2] = skills[i].category
                 /\ aside_sections_csv[r][4] = IntToStr(i)


-----------------------------------------------------------------------------
(* Properties of the company columns (write_entries_csv).                  *)

\* the positions of the company_<name> columns in the header row
CompanyColumns ==
    SelectSeq([i \in 1..Len(entries_csv[2]) |-> i],
              LAMBDA i : StartsWith(entries_csv[2][i], S_company_))

\* the names of the company_<name> columns, in column order
CompanyColumnNames ==
    [k \in 1..Len(CompanyColumns) |->
        SubSeq(entries_csv[2][CompanyColumns[k]], Len(S_company_) + 1,
               Len(entries_csv[2][CompanyColumns[k]]))]

\* C19: the company columns are the company names of every entry of the
\* document, filtered out or not, in sorted order, and every exported row has
\* for each of them TRUE when the entry's companies contain it, else FALSE
C19_CompanyColumnsSorted ==
    Exported
    => /\ ToSet(CompanyColumnNames) = AllCompanies(entries)
       /\ \A i, j \in 1..Len(CompanyColumnNames) :
             i < j => StrLess(CompanyColumnNames[i], CompanyColumnNames[j])
       /\ \A r \in 1..Len(filtered_entries), k \in 1..Len(CompanyColumns) :
             entries_csv[r + 2][CompanyColumns[k]] =
                IF In(CompanyColumnNames[k], filtered_entries[r].companies)
                THEN S_TRUE ELSE S_FALSE

\* the same without the order of the columns
C19_Unordered ==
    Exported
    => /\ ToSet(CompanyColumnNames) = AllCompanies(entries)
       /\ \A i, j \in 1..Len(CompanyColumnNames) :
             CompanyColumnNames[i] = CompanyColumnNames[j] => i = j
       /\ \A r \in 1..Len(filtered_entries), k \in 1..Len(CompanyColumns) :
             entries_csv[r + 2][CompanyColumns[k]] =
                IF In(CompanyColumnNames[k], filtered_entries[r].companies)
                THEN S_TRUE ELSE S_FALSE


-----------------------------------------------------------------------------
(* Properties of the description columns (write_entries_csv).              *)

\* the length of the longest descriptions list among the exported entries
LongestDescriptions ==
    CHOOSE w \in 0..10 :
        /\ \A i \in 1..Len(filtered_entries) : Len(filtered_entries[i].descriptions) <= w
        /\ \/ w = 0
           \/ \E i \in 1..Len(filtered_entries) : Len(filtered_entries[i].descriptions) = w

\* C21: the header has description_1 .. description_w for the one width w, the
\* length of the longest descriptions list among the exported entries, and
\* every exported row has exactly w description cells: its own descriptions in
\* order, then empty strings
C21_DescriptionWidth ==
    Exported
    => LET w == LongestDescriptions
       IN /\ Len(entries_csv) = Len(filtered_entries) + 2
          /\ \A k \in 1..Len(entries_csv[2]) :
                StartsWith(entries_csv[2][k], S_description_) <=> k \in 7..(6 + w)
          /\ \A k \in 1..w : entries_csv[2][6 + k] = S_description_ \o IntToStr(k)
          /\ \A r \in 1..Len(filtered_entries) :
                LET row == entries_csv[r + 2]
                    d == filtered_entries[r].descriptions
                IN /\ Len(row) = Len(entries_csv[2])
                   /\ \A k \in 1..w :
                         row[6 + k] = IF k <= Len(d) THEN d[k] ELSE <<>>

\* two entries are exported, the second with more descriptions than the
\* first, which is padded
C21_Witness ==
    /\ Exported
    /\ Len(filtered_entries) = 2
    /\ Len(filtered_entries[1].descriptions) = 0
    /\ Len(filtered_entries[2].descriptions) = 2
    /\ entries_csv[3][7] = <<>> /\ entries_csv[3][8] = <<>>
    /\ entries_csv[4][8] = filtered_entries[2].descriptions[2]


-----------------------------------------------------------------------------
(* Properties of the import of the entries table (parse_entries_csv).      *)

\* the rows of the table in entries_csv as read_csv_file hands them to
\* parse_entries_csv
RowsRead == ReadCsvFile(entries_csv, TRUE)

\* the in_resume cell of a row read is truthy, whatever its case
InResume(row) == Upper(Get(row, S_in_resume, <<>>)) \in Truthy

NoTagTwice(tags) == \A a, b \in 1..Len(tags) : tags[a] = tags[b] => a = b

\* C22: the tags of an imported entry contain cv, contain resume exactly when
\* the in_resume cell is truthy, contain the section when it is non-empty,
\* hold no other tag and no tag twice
C22_TagsFromCells ==
    pc = "parsed"
    => /\ Len(json_entries) = Len(RowsRead)
       /\ \A i \in 1..Len(json_entries) :
             LET tags == json_entries[i].tags
                 section == Get(RowsRead[i], S_section, <<>>)
             IN /\ In(S_cv, tags)
                /\ In(S_resume, tags) <=> InResume(RowsRead[i])
                /\ section # <<>> => In(section, tags)
                /\ ToSet(tags) \subseteq {S_cv, S_resume, section}
                /\ NoTagTwice(tags)

\* what holds of the rows read instead: resume is a tag exactly when the
\* in_resume cell is truthy or the section is itself resume
TagsOfRowsRead ==
    pc = "parsed"
    => /\ Len(json_entries) = Len(RowsRead)
       /\ \A i \in 1..Len(json_entries) :
             LET tags == json_entries[i].tags
                 section == Get(RowsRead[i], S_section, <<>>)
             IN /\ In(S_cv, tags)
                /\ In(S_resume, tags) <=> (InResume(RowsRead[i]) \/ section = S_resume)
                /\ section # <<>> => In(section, tags)
                /\ ToSet(tags) \subseteq ({S_cv, section} \ {<<>>})
                                          \cup (IF InResume(RowsRead[i])
                                                THEN {S_resume} ELSE {})
                /\ NoTagTwice(tags)

\* C23: an entries table with N data rows is imported as N entries, the entry
\* of the row at 0-based index i with importance N - i: the importances are
\* N, N-1, ..., 1 in row order
C23_ImportanceByRow ==
    pc = "parsed"
    => /\ Len(json_entries) = Len(InputRows)
       /\ \A r \in 1..Len(json_entries) :
             /\ json_entries[r].title = Cell(InputRows[r], S_title)
             /\ json_entries[r].importance = Len(InputRows) - (r - 1)

\* the same for the tables that have their explanation row
C23_WithExplanationRow == HasExplanationRow => C23_ImportanceByRow


-----------------------------------------------------------------------------
(* Properties of the whole-document tailoring                              *)
(* (create_tailored_cv_with_prompt).                                       *)

\* the call has returned a text and not raised
Returned == pc \in {"prompted", "fallback"} /\ ~raw_response.raises

\* the text the parsers were given
ParsedText == TailoredCvJson(tailor_args.service, raw_response.text)

\* no parser accepts the text, repaired or not
Unparseable ==
    /\ ~JsonLoads(ParsedText).ok
    /\ ~LiteralEval(ParsedText).ok
    /\ ~DemjsonDecode(ParsedText).ok

\* the minimal document is what a failed call or an unparseable text gives: the
\* first min(3, n) entries of the input in their order, the input's contact
\* information, text blocks and skills, and a meta with a note of the error
MinimalOnFailure ==
    pc \in {"prompted", "fallback"}
    => /\ raw_response.raises => pc = "fallback"
       /\ (Returned /\ Unparseable) => pc = "fallback"
       /\ pc = "fallback"
          => /\ Len(tailored_entries)
                  = (IF Len(cv_entries) < 3 THEN Len(cv_entries) ELSE 3)
             /\ \A i \in 1..Len(tailored_entries) : tailored_entries[i] = cv_entries[i]
             /\ tailored_data.contact_info = cv_data_in.contact_info
             /\ tailored_data.text_blocks = cv_data_in.text_blocks
             /\ tailored_data.skills = cv_data_in.skills
             /\ S_note \in DOMAIN tailored_data.meta.val
             /\ StartsWith(tailored_data.meta.val[S_note], S_parse_error)

C27_StrictFirst ==
    Returned
    => /\ JsonLoads(raw_response.text).ok
          => /\ pc = "prompted"
             /\ parsed_by = "json.loads"
             /\ tailored_cv = JsonLoads(raw_response.text).out
       /\ ParsedText # raw_response.text => ~JsonLoads(raw_response.text).ok
       /\ pc = "fallback" => ~JsonLoads(ParsedText).ok /\ ~LiteralEval(ParsedText).ok

\* the same for the OpenAI service only
C27_StrictFirstOpenAI == tailor_args.service = S_openai => C27_StrictFirst


-----------------------------------------------------------------------------
(* Properties of the scored entries of create_tailored_json.               *)

\* what score_entry_relevance returned for entry number i
ResultFor(i) == ScoreEntryRelevance(responses[i], tailor_args.service)

\* entry number i is scored with suggestions to take
Rewritten(i) ==
    tailor_args.improve_descriptions /\ ResultFor(i).improved_descriptions # <<>>

\* C25: when improve_descriptions is set and the scorer returned a non-empty
\* list of suggestions, the scored entry's descriptions are the suggestions and
\* its original_descriptions are the entry's descriptions; in every other case
\* (flag off, no suggestion, scoring failed) the scored entry has the entry's
\* descriptions and no original_descriptions key.
C25_RewriteOnlyOnSuggestions ==
    \A i \in 1..Len(scored_entries) :
        LET entry == cv_entries[i]
            scored == scored_entries[i]
        IN IF Rewritten(i)
           THEN /\ scored.descriptions = ResultFor(i).improved_descriptions
                /\ "original_descriptions" \in DOMAIN scored
                /\ scored.original_descriptions = entry.descriptions
           ELSE /\ scored.descriptions = entry.descriptions
                /\ "original_descriptions" \notin DOMAIN scored

\* a finished run with the flag set: one entry rewritten and one whose scoring
\* failed
C25_Witness ==
    /\ pc = "done"
    /\ \E i, j \in 1..Len(scored_entries) :
          /\ Rewritten(i)
          /\ scored_entries[i].descriptions # cv_entries[i].descriptions
          /\ tailor_args.improve_descriptions
          /\ responses[j].kind \in {"raise", "unparseable"}


\* the place in the input of the entry written at place k of the output
InputPlace(k) ==
    CHOOSE i \in 1..Len(cv_entries) : cv_entries[i].title = tailored_entries[k].title

\* the place in the input where the section of output entry k is first met
FirstMet(k) ==
    CHOOSE i \in 1..Len(cv_entries) :
        /\ SectionOf(cv_entries[i]) = SectionOf(tailored_entries[k])
        /\ \A j \in 1..(i - 1) :
              SectionOf(cv_entries[j]) # SectionOf(tailored_entries[k])

\* C26: the written entries are grouped by section, the groups in the order in
\* which the sections are first met in the input; within a group the scores
\* descend and entries of equal score keep their input order.
C26_GroupedAndRanked ==
    pc = "done"
    => \A p, q \in 1..Len(tailored_entries) :
          p < q =>
             /\ FirstMet(p) <= FirstMet(q)
             /\ SectionOf(tailored_entries[p]) = SectionOf(tailored_entries[q])
                => /\ tailored_entries[p].relevance_score
                        >= tailored_entries[q].relevance_score
                   /\ tailored_entries[p].relevance_score
                        = tailored_entries[q].relevance_score
                      => InputPlace(p) < InputPlace(q)

\* a written document of three entries in which an entry of the first section
\* has moved ahead of the other section's entry and of a lower-scored entry of
\* its own section
C26_Witness ==
    /\ pc = "done"
    /\ Len(tailored_entries) = 3
    /\ InputPlace(1) = 3
    /\ InputPlace(2) = 1
    /\ InputPlace(3) = 2
    /\ SectionOf(tailored_entries[1]) = SectionOf(tailored_entries[2])
    /\ SectionOf(tailored_entries[3]) # SectionOf(tailored_entries[1])
    /\ tailored_entries[1].relevance_score > tailored_entries[2].relevance_score

\* a written document with two entries of one section and of equal score
C26_TieWitness ==
    /\ pc = "done"
    /\ \E p, q \in 1..Len(tailored_entries) :
          /\ p < q
          /\ SectionOf(tailored_entries[p]) = SectionOf(tailored_entries[q])
          /\ tailored_entries[p].relevance_score = tailored_entries[q].relevance_score


-----------------------------------------------------------------------------
(* Properties of the export of the text blocks followed by their import.   *)

\* the (id, content) pairs of a list of blocks
BlockPairs(blocks) == [i \in 1..Len(blocks) |-> <<blocks[i].id, blocks[i].content>>]

\* the blocks have unique non-empty ids and non-empty content and all carry the
\* tag of the exported document type
RoundTripBlocks ==
    /\ \A i \in 1..Len(text_blocks) :
          /\ text_blocks[i].id # <<>>
          /\ text_blocks[i].content # <<>>
          /\ In(args.doc_type, text_blocks[i].tags)
    /\ \A i, j \in 1..Len(text_blocks) :
          text_blocks[i].id = text_blocks[j].id => i = j

\* C28: for blocks with unique non-empty ids, non-empty content and the tag of
\* the document type, writing text_blocks.csv and importing it again gives the
\* same sequence of (id, content) pairs, no block lost.
C28_TextBlocksRoundTrip ==
    (pc = "reimported" /\ RoundTripBlocks)
    => BlockPairs(json_text_blocks) = BlockPairs(text_blocks)

\* what the import does give for such blocks: the exported blocks but the first,
\* whose row is read as the header
C28_AllButFirst ==
    (pc = "reimported" /\ RoundTripBlocks /\ text_blocks # <<>>)
    => BlockPairs(json_text_blocks)
          = Tail(BlockPairs(FilteredBlocks(text_blocks, args.doc_type)))


-----------------------------------------------------------------------------
(* Properties of the export of the contact information followed by its     *)
(* import.                                                                 *)

\* the contact information has been imported, exported and imported again
ContactReimported == pc = "reimported" /\ contact_csv # <<>>

\* C29: the contact information imported from a 3-column table, written with
\* write_contact_info_csv and imported again, is the same mapping (keys, values
\* and icons), also for a loc that contains an underscore.
C29_ContactRoundTrip ==
    ContactReimported => contact_info = contact_info_in

\* a key of the mapping that was exported has an underscore of its loc: it is
\* not a loc followed by an underscore and the icon stored under it
UnderscoreInLoc ==
    \E i \in 1..Len(contact_info_in.keys) :
        LET key == contact_info_in.keys[i]
        IN /\ Underscores(key) # {}
           /\ \/ Cardinality(Underscores(key)) > 1
              \/ KeyIcon(key) # contact_info_in.val[key].icon
              \/ ~In(KeyLoc(key), SubSeq(contact_info_in.keys, 1, i - 1))

\* what holds: the mapping is the same when no underscore of a key comes from
\* its loc
C29_WithoutUnderscoreInLoc ==
    (ContactReimported /\ ~UnderscoreInLoc) => contact_info = contact_info_in


-----------------------------------------------------------------------------
(* Properties of the export of the skills followed by their import.        *)

\* the category names with the names of their entries
SkillNames(skills_data) ==
    [i \in 1..Len(skills_data) |->
        <<skills_data[i].category,
          [j \in 1..Len(skills_data[i].entries) |-> skills_data[i].entries[j].name]>>]

\* every category has a non-empty name of its own and at least one entry
RoundTripSkills ==
    /\ \A i \in 1..Len(skills) :
          skills[i].category # <<>> /\ skills[i].entries # <<>>
    /\ \A i, j \in 1..Len(skills) :
          skills[i].category = skills[j].category => i = j

\* C30: for categories with non-empty names, no name twice, and at least one
\* entry each, writing the sections and entries tables and importing them again
\* gives the same sequence of categories, each with its own entry names in
\* order, also when the slugs of two category names coincide.
C30_SkillsRoundTrip ==
    (pc = "reimported" /\ RoundTripSkills) => SkillNames(json_skills) = SkillNames(skills)

\* two categories of the document have the same slug
SlugsCoincide ==
    \E i, j \in 1..Len(skills) :
        i # j /\ CategorySlug(skills[i].category) = CategorySlug(skills[j].category)

\* what holds: the categories and their entry names come back when no two
\* categories have the same slug
C30_DistinctSlugs ==
    (pc = "reimported" /\ RoundTripSkills /\ ~SlugsCoincide)
    => SkillNames(json_skills) = SkillNames(skills)

====
